---- MODULE Spec2Model ----
(***************************************************************************)
(* A model of the Orangebeard Vitest reporter                              *)
(* (src/src/reporter/OrangebeardVitestReporter.ts and its utilities in     *)
(* src/unnamed/part_001).                                                  *)
(*                                                                         *)
(* The reporter's private fields are the variables testRunId, suites,      *)
(* tests, promises, bufferedLogs and coverage.  The remote client is       *)
(* modelled by the sequence `calls` of the calls made on it; the           *)
(* identifier a creating call returns is the index of that call, so every  *)
(* identifier is fresh.  `runEnds` holds the activations of the async      *)
(* onTestRunEnd, and `hist` the events delivered so far, each with the     *)
(* number of remote calls made before it.                                  *)
(*                                                                         *)
(* Strings are sequences of one-character strings, so that joining,        *)
(* trimming, lower-casing and substring search are computed.               *)
(***************************************************************************)
EXTENDS Naturals, Integers, Sequences, FiniteSets, TLC

VARIABLES testRunId, suites, tests, promises, bufferedLogs, coverage,
          calls, runEnds, hist, clock, disk, waits

vars == <<testRunId, suites, tests, promises, bufferedLogs, coverage,
          calls, runEnds, hist, clock, disk, waits>>

(***************************************************************************)
(* Values                                                                  *)
(***************************************************************************)

\* `undefined` where the code holds an identifier (identifiers are >= 1).
NoId == 0

\* `undefined` where the code holds a string.
Undef == <<"<undefined>">>

\* An absent or empty task identifier (both are falsy).
NoTask == ""

\* `undefined` where the code holds an object.
None == [none |-> TRUE]

Last(s) == s[Len(s)]

Max(a, b) == IF a >= b THEN a ELSE b

Min(a, b) == IF a <= b THEN a ELSE b

\* JavaScript truthiness of an optional string.
Truthy(s) == s # Undef /\ s # <<>>

\* String.prototype.startsWith
StartsWith(s, p) == Len(s) >= Len(p) /\ SubSeq(s, 1, Len(p)) = p

\* String.prototype.includes
Includes(s, k) ==
    \E i \in 1..(Len(s) + 1) :
        i + Len(k) - 1 <= Len(s) /\ SubSeq(s, i, i + Len(k) - 1) = k

\* String.prototype.trim().length > 0 : some character is not white space.
NonBlank(s) == \E i \in 1..Len(s) : s[i] \notin {" ", "\t", "\n"}

RECURSIVE FilterSegments(_)
\* segments.filter((s) => s && s.trim().length > 0)
FilterSegments(s) ==
    IF s = <<>> THEN <<>>
    ELSE (IF Truthy(s[1]) /\ NonBlank(s[1]) THEN <<s[1]>> ELSE <<>>)
         \o FilterSegments(Tail(s))

RECURSIVE Join(_)
\* keyParts.join('|')
Join(parts) ==
    IF parts = <<>> THEN <<>>
    ELSE IF Len(parts) = 1 THEN parts[1]
    ELSE parts[1] \o <<"|">> \o Join(Tail(parts))

(***************************************************************************)
(* utils: testStatusMap, determineTestType, formatConsoleLog               *)
(***************************************************************************)

\* The own keys of the testStatusMap object literal.
OwnStatusKeys == {"passed", "failed", "skipped", "pending"}

\* Property names every object literal inherits from Object.prototype; the
\* model keeps two of them.
InheritedKeys == {"constructor", "toString"}

\* testStatusMap with the entry of `failed` mistaken.
testStatusMapFailedAsPassed(state) ==
    CASE state \in {"passed", "failed"} -> "PASSED"
      [] state \in {"skipped", "pending"} -> "SKIPPED"
      [] state \in InheritedKeys -> "function"
      [] OTHER -> "undefined"

\* testStatusMap[state]: a property read on a plain object literal, which
\* finds the four own keys, then the properties inherited from
\* Object.prototype (functions, hence truthy), and is undefined otherwise.
testStatusMap(state) ==
    CASE state = "passed" -> "PASSED"
      [] state = "failed" -> "FAILED"
      [] state = "skipped" -> "SKIPPED"
      [] state = "pending" -> "SKIPPED"
      [] state \in InheritedKeys -> "function"
      [] OTHER -> "undefined"

\* String.prototype.toLowerCase on the letters the model uses.
LowerChar(c) ==
    CASE c = "A" -> "a" [] c = "B" -> "b" [] c = "D" -> "d" [] c = "E" -> "e"
      [] c = "F" -> "f" [] c = "H" -> "h" [] c = "L" -> "l" [] c = "N" -> "n"
      [] c = "O" -> "o" [] c = "P" -> "p" [] c = "R" -> "r" [] c = "S" -> "s"
      [] c = "T" -> "t" [] c = "U" -> "u" [] c = "W" -> "w" [] c = "C" -> "c"
      [] OTHER -> c

ToLowerCase(s) == [i \in 1..Len(s) |-> LowerChar(s[i])]

BeforeKeywords ==
    { <<"b","e","f","o","r","e","a","l","l">>,
      <<"b","e","f","o","r","e"," ","a","l","l">>,
      <<"b","e","f","o","r","e","e","a","c","h">>,
      <<"b","e","f","o","r","e"," ","e","a","c","h">>,
      <<"s","e","t","u","p">> }

AfterKeywords ==
    { <<"a","f","t","e","r","a","l","l">>,
      <<"a","f","t","e","r"," ","a","l","l">>,
      <<"a","f","t","e","r","e","a","c","h">>,
      <<"a","f","t","e","r"," ","e","a","c","h">>,
      <<"t","e","a","r","d","o","w","n">> }

\* determineTestType with the two tests in the other order.
determineTestTypeAfterFirst(parentTitlePath) ==
    LET lower == ToLowerCase(parentTitlePath) IN
    IF \E k \in AfterKeywords : Includes(lower, k) THEN "AFTER"
    ELSE IF \E k \in BeforeKeywords : Includes(lower, k) THEN "BEFORE"
    ELSE "TEST"

determineTestType(parentTitlePath) ==
    LET lower == ToLowerCase(parentTitlePath) IN
    IF \E k \in BeforeKeywords : Includes(lower, k) THEN "BEFORE"
    ELSE IF \E k \in AfterKeywords : Includes(lower, k) THEN "AFTER"
    ELSE "TEST"

\* formatConsoleLog: the level follows the stream, the format follows the
\* presence of markdown markers in the text.
formatConsoleLog(log) ==
    [level |-> IF log.type = "stderr" THEN "ERROR" ELSE "INFO",
     format |-> IF log.markdown THEN "MARKDOWN" ELSE "PLAIN_TEXT"]

(***************************************************************************)
(* Maps (the reporter's Map fields)                                        *)
(***************************************************************************)

EmptyMap == [k \in {} |-> NoId]

MapHas(m, k) == k \in DOMAIN m

\* Map.prototype.set
MapSet(m, k, v) == [x \in DOMAIN m \cup {k} |-> IF x = k THEN v ELSE m[x]]

\* Map.prototype.delete
MapDelete(m, k) == [x \in DOMAIN m \ {k} |-> m[x]]

(***************************************************************************)
(* The remote client: every call is appended to `calls`, and a creating    *)
(* call returns the index of its own record as the new identifier.         *)
(***************************************************************************)

NewId(cs) == Len(cs) + 1

StartTestRunCall(cs) == [op |-> "startTestRun", ret |-> NewId(cs)]

StartSuiteCall(cs, run, parent, name) ==
    [op |-> "startSuite", run |-> run, parent |-> parent, name |-> name,
     ret |-> NewId(cs)]

\* `task` is the runner's identifier of the test the call is made for
\* (NoTask for the synthetic coverage test); the client does not receive it.
StartTestCall(cs, run, suite, name, type, description, task) ==
    [op |-> "startTest", run |-> run, suite |-> suite, name |-> name,
     type |-> type, description |-> description, task |-> task,
     ret |-> NewId(cs)]

\* `src` says what the message was rendered from.
LogCall(cs, run, test, level, format, src) ==
    [op |-> "log", run |-> run, test |-> test, level |-> level,
     format |-> format, src |-> src, ret |-> NewId(cs)]

FinishTestCall(run, test, status) ==
    [op |-> "finishTest", run |-> run, test |-> test, status |-> status]

SendAttachmentCall(run, test, log, name) ==
    [op |-> "sendAttachment", run |-> run, test |-> test, log |-> log,
     name |-> name]

FinishTestRunCall(run) == [op |-> "finishTestRun", run |-> run]

(***************************************************************************)
(* Hierarchy: buildSuitePath, getOrStartSuiteForTest                       *)
(***************************************************************************)

RECURSIVE ScopeNames(_)
\* The while loop of buildSuitePath: `chain` holds the names met from the
\* test's own suite upwards along .parent; the walk stops at the first
\* node without a (truthy) name.
ScopeNames(chain) ==
    IF chain = <<>> \/ ~Truthy(chain[1]) THEN <<>>
    ELSE <<chain[1]>> \o ScopeNames(Tail(chain))

\* The module segment: the path relative to the working directory unless it
\* is empty or leaves the directory, else the module id; without a module
\* id, projectName ?? name ?? 'root'.
ModuleSegment(module) ==
    IF Truthy(module.moduleId)
    THEN IF Truthy(module.rel) /\ ~StartsWith(module.rel, <<".", ".">>)
         THEN module.rel ELSE module.moduleId
    ELSE IF module.projectName # Undef THEN module.projectName
         ELSE IF module.name # Undef THEN module.name
         ELSE <<"r", "o", "o", "t">>

buildSuitePath(test) ==
    FilterSegments(
        (IF test.module # None THEN <<ModuleSegment(test.module)>> ELSE <<>>)
        \o ScopeNames(test.chain))

RECURSIVE SuiteLoopNoParent(_, _, _)
\* The loop of getOrStartSuiteForTest whose startSuite calls carry no
\* parentSuiteUUID.
SuiteLoopNoParent(path, i, st) ==
    IF i > Len(path) THEN st
    ELSE LET key == Join(SubSeq(path, 1, i)) IN
         IF MapHas(st.suites, key)
         THEN SuiteLoopNoParent(path, i + 1, [st EXCEPT !.parent = st.suites[key]])
         ELSE LET c == StartSuiteCall(st.calls, st.run, NoId, path[i]) IN
              SuiteLoopNoParent(path, i + 1,
                                [st EXCEPT !.calls = Append(st.calls, c),
                                           !.parent = c.ret,
                                           !.suites = MapSet(st.suites, key, c.ret)])

RECURSIVE SuiteLoop(_, _, _)
\* The for loop of getOrStartSuiteForTest from segment i on; st holds the
\* suites map, the calls made and parentSuiteUUID.
SuiteLoop(path, i, st) ==
    IF i > Len(path) THEN st
    ELSE LET key == Join(SubSeq(path, 1, i)) IN
         IF MapHas(st.suites, key)
         THEN SuiteLoop(path, i + 1, [st EXCEPT !.parent = st.suites[key]])
         ELSE LET c == StartSuiteCall(st.calls, st.run, st.parent, path[i]) IN
              SuiteLoop(path, i + 1,
                        [st EXCEPT !.calls = Append(st.calls, c),
                                   !.parent = c.ret,
                                   !.suites = MapSet(st.suites, key, c.ret)])

\* getOrStartSuiteForTest whose lookups never find a memoized suite.
getOrStartSuiteForTestNoMemo(test, run, suites0, calls0) ==
    LET st == SuiteLoop(buildSuitePath(test), 1,
                        [suites |-> EmptyMap, calls |-> calls0,
                         parent |-> NoId, run |-> run])
    IN [suites |-> [k \in DOMAIN suites0 \cup DOMAIN st.suites |->
                       IF k \in DOMAIN st.suites THEN st.suites[k]
                       ELSE suites0[k]],
        calls |-> st.calls, parent |-> st.parent,
        raised |-> (st.parent = NoId)]

\* getOrStartSuiteForTest without the final check: with no suite resolved it
\* returns undefined instead of throwing.
getOrStartSuiteForTestNoThrow(test, run, suites0, calls0) ==
    LET st == SuiteLoop(buildSuitePath(test), 1,
                        [suites |-> suites0, calls |-> calls0,
                         parent |-> NoId, run |-> run])
    IN [suites |-> st.suites, calls |-> st.calls, parent |-> st.parent,
        raised |-> FALSE]

\* Returns the state after the loop, with `raised` when no suite was
\* resolved (the thrown Error) and the suite identifier in `parent`.
getOrStartSuiteForTest(test, run, suites0, calls0) ==
    LET st == SuiteLoop(buildSuitePath(test), 1,
                        [suites |-> suites0, calls |-> calls0,
                         parent |-> NoId, run |-> run])
    IN [suites |-> st.suites, calls |-> st.calls, parent |-> st.parent,
        raised |-> (st.parent = NoId)]

\* location.file ?? location.fileName of a location with a numeric line
\* (None: no location, or a line that is not a number).
LocationFile(test) ==
    IF test.location = None THEN Undef ELSE test.location.file

\* The description is `file:line` when both are known, else empty.
getTestDescription(test) ==
    IF test.location # None /\ Truthy(LocationFile(test))
    THEN <<[file |-> LocationFile(test), line |-> test.location.line]>>
    ELSE <<>>

(***************************************************************************)
(* flushBufferedLogs, ensureTestStarted                                    *)
(***************************************************************************)

RECURSIVE LogEachReversed(_, _, _, _)
\* The loop of flushBufferedLogs taking the newest entry first.
LogEachReversed(buffered, run, testUUID, cs) ==
    IF buffered = <<>> THEN cs
    ELSE LET f == formatConsoleLog(Last(buffered)) IN
         LogEachReversed(SubSeq(buffered, 1, Len(buffered) - 1), run, testUUID,
                         Append(cs, LogCall(cs, run, testUUID, f.level, f.format,
                                            [kind |-> "console",
                                             log |-> Last(buffered)])))

RECURSIVE LogEach(_, _, _, _)
\* The for loop of flushBufferedLogs.
LogEach(buffered, run, testUUID, cs) ==
    IF buffered = <<>> THEN cs
    ELSE LET f == formatConsoleLog(buffered[1]) IN
         LogEach(Tail(buffered), run, testUUID,
                 Append(cs, LogCall(cs, run, testUUID, f.level, f.format,
                                    [kind |-> "console", log |-> buffered[1]])))

\* flushBufferedLogs that forgets to send: the buffer is only dropped.
flushBufferedLogsDropped(taskId, testUUID, run, buffers, cs) ==
    [bufferedLogs |-> MapDelete(buffers, taskId), calls |-> cs]

\* flushBufferedLogs that forwards the entries and keeps the buffer.
flushBufferedLogsKept(taskId, testUUID, run, buffers, cs) ==
    IF ~MapHas(buffers, taskId) \/ buffers[taskId] = <<>>
    THEN [bufferedLogs |-> buffers, calls |-> cs]
    ELSE [bufferedLogs |-> buffers,
          calls |-> LogEach(buffers[taskId], run, testUUID, cs)]

\* Returns the buffer map and the calls after the flush.
flushBufferedLogs(taskId, testUUID, run, buffers, cs) ==
    IF ~MapHas(buffers, taskId) \/ buffers[taskId] = <<>>
    THEN [bufferedLogs |-> buffers, calls |-> cs]
    ELSE [bufferedLogs |-> MapDelete(buffers, taskId),
          calls |-> LogEach(buffers[taskId], run, testUUID, cs)]

\* ensureTestStarted without the look-up of an already started test.
ensureTestStartedAgain(test, st) ==
    LET s == getOrStartSuiteForTest(test, st.testRunId, st.suites, st.calls) IN
    IF s.raised
    THEN [st EXCEPT !.suites = s.suites, !.calls = s.calls,
                    !.uuid = NoId, !.raised = TRUE]
    ELSE LET c == StartTestCall(s.calls, st.testRunId, s.parent, test.name,
                                determineTestType(test.name),
                                getTestDescription(test), test.id)
             f == flushBufferedLogs(test.id, c.ret, st.testRunId,
                                    st.bufferedLogs, Append(s.calls, c))
         IN [st EXCEPT !.suites = s.suites,
                       !.tests = MapSet(st.tests, test.id, c.ret),
                       !.bufferedLogs = f.bufferedLogs,
                       !.calls = f.calls,
                       !.uuid = c.ret,
                       !.raised = FALSE]

\* ensureTestStarted on the reporter state st = [testRunId, suites, tests,
\* bufferedLogs, calls]; returns the new state with the test's identifier
\* in `uuid`, or with `raised` set when getOrStartSuiteForTest threw.
ensureTestStarted(test, st) ==
    IF MapHas(st.tests, test.id)
    THEN [st EXCEPT !.uuid = st.tests[test.id], !.raised = FALSE]
    ELSE LET s == getOrStartSuiteForTest(test, st.testRunId, st.suites, st.calls) IN
         IF s.raised
         THEN [st EXCEPT !.suites = s.suites, !.calls = s.calls,
                         !.uuid = NoId, !.raised = TRUE]
         ELSE LET c == StartTestCall(s.calls, st.testRunId, s.parent, test.name,
                                     determineTestType(test.name),
                                     getTestDescription(test), test.id)
                  f == flushBufferedLogs(test.id, c.ret, st.testRunId,
                                         st.bufferedLogs, Append(s.calls, c))
              IN [st EXCEPT !.suites = s.suites,
                            !.tests = MapSet(st.tests, test.id, c.ret),
                            !.bufferedLogs = f.bufferedLogs,
                            !.calls = f.calls,
                            !.uuid = c.ret,
                            !.raised = FALSE]

\* The reporter's fields as one record, for the helpers above.
Fields ==
    [testRunId |-> testRunId, suites |-> suites, tests |-> tests,
     bufferedLogs |-> bufferedLogs, calls |-> calls,
     uuid |-> NoId, raised |-> FALSE]

(***************************************************************************)
(* utils: getCodeSnippet over the files of the model                       *)
(***************************************************************************)

\* The lines of each readable source file (fileContent.split(/\r?\n/));
\* any other path makes readFileSync throw.
Files ==
    [f \in {<<"f">>} |-> <<"", "it", "  expect", "end">>]

\* trim() === '' for a line of the files.
BlankLine(l) == l \in {"", " "}

\* getCodeSnippet: raised, or the lines of the snippet.
getCodeSnippet(filePath, lineNumber) ==
    IF lineNumber < 1 THEN [raised |-> TRUE, lines |-> <<>>]
    ELSE IF filePath \notin DOMAIN Files THEN [raised |-> TRUE, lines |-> <<>>]
    ELSE LET lines == Files[filePath]
             startLine == Max(0, lineNumber - 2)
             endLine == Min(Len(lines), lineNumber + 1)
             snippet == SubSeq(lines, startLine + 1, endLine)
         IN IF startLine >= Len(lines) THEN [raised |-> TRUE, lines |-> <<>>]
            ELSE [raised |-> FALSE,
                  lines |-> IF Len(snippet) > 0 /\ BlankLine(snippet[1])
                            THEN Tail(snippet) ELSE snippet]

(***************************************************************************)
(* utils: waitForFile, getBytes.  `clock` is Date.now(), `disk` maps the   *)
(* paths that exist to what stat reports of them, and waits[i] is the call *)
(* of waitForFile made for the i-th upload.                                *)
(***************************************************************************)

\* The arguments getBytes passes to waitForFile, in milliseconds.
Interval == 100

Timeout == 5000

\* waitForFile up to its first await: `start` is taken and the first pass
\* of the loop, which cannot time out, calls fileExists.
waitForFile(now) ==
    [pc |-> "access", start |-> now, stats |-> <<>>, wake |-> 0,
     after |-> "", error |-> "none", at |-> now]

(***************************************************************************)
(* utils: formatCoverageMarkdownTable.  A coverage object is told by what  *)
(* the formatter can observe of it: which of its members are functions,    *)
(* whether it has the four totals of a summary, the file paths files()     *)
(* returns, and which of its operations throw.                             *)
(***************************************************************************)

\* process.cwd()
Cwd == <<"/", "w">>

\* The UTF-16 code unit of the characters of the paths of the model.
CodeUnit(c) ==
    CASE c = "/" -> 47 [] c = "B" -> 66 [] c = "a" -> 97 [] c = "b" -> 98
      [] c = "c" -> 99 [] c = "w" -> 119 [] c = "x" -> 120

RECURSIVE StringLess(_, _)
\* The order Array.prototype.sort() uses without a comparator: strings by
\* their code units.
StringLess(p, q) ==
    IF q = <<>> THEN FALSE
    ELSE IF p = <<>> THEN TRUE
    ELSE IF p[1] # q[1] THEN CodeUnit(p[1]) < CodeUnit(q[1])
    ELSE StringLess(Tail(p), Tail(q))

RECURSIVE InsertSorted(_, _)
InsertSorted(sorted, p) ==
    IF sorted = <<>> THEN <<p>>
    ELSE IF StringLess(p, sorted[1]) THEN <<p>> \o sorted
    ELSE <<sorted[1]>> \o InsertSorted(Tail(sorted), p)

\* files.sort() left out: the files stay in the order of enumeration.
SortFilesAsEnumerated(files) == files

RECURSIVE SortFiles(_)
\* files.sort()
SortFiles(files) ==
    IF files = <<>> THEN <<>>
    ELSE InsertSorted(SortFiles(Tail(files)), files[1])

\* path.relative(process.cwd(), file), and the choice between it and the
\* file: the relative path unless it is empty or leaves the directory.
RelPath(file) ==
    IF StartsWith(file, Cwd \o <<"/">>) /\ Len(file) > Len(Cwd) + 1
    THEN SubSeq(file, Len(Cwd) + 2, Len(file))
    ELSE file

\* A line of the table: its fixed text, the path it shows (file rows) and
\* the value it embeds as JSON (the fallback table).
Row(text, path, json) == [row |-> text, path |-> path, json |-> json]

FileHeader ==
    << Row("| File | Lines | Statements | Branches | Functions |", <<>>, None),
       Row("| ---- | ----: | ---------: | -------: | --------: |", <<>>, None) >>

AllFilesRow == Row("**All files**", <<>>, None)

FileRow(file) == Row("file", RelPath(file), None)

\* The fallback table around JSON.stringify(coverage, null, 2) ?? 'null'.
JsonTable(cov) ==
    << Row("| Metric | Value |", <<>>, None),
       Row("| ------ | ----- |", <<>>, None),
       Row("| Coverage JSON |", <<>>, cov) >>

PlaceholderTable ==
    << Row("| Metric | Value |", <<>>, None),
       Row("| ------ | ----- |", <<>>, None),
       Row("| Coverage | (unserializable) |", <<>>, None) >>

\* What a coverage object may throw on: any property read, the call of
\* getCoverageSummary, of files, of fileCoverageFor, pct.toFixed (a pct that
\* is not a number), and JSON.stringify (a cycle, a BigInt).
ThrowPoints ==
    {"get", "getCoverageSummary", "files", "fileCoverageFor", "toFixed",
     "stringify"}

\* The first try block: `raised` when something in it threw, `returned`
\* when one of the two branches returned the rows.
TableFromShape(cov) ==
    LET thrown == [raised |-> TRUE, returned |-> FALSE, rows |-> <<>>]
        fell == [raised |-> FALSE, returned |-> FALSE, rows |-> <<>>]
    IN IF cov = None THEN fell
       ELSE IF "get" \in cov.throws THEN thrown
       ELSE IF cov.filesFn /\ cov.fileCoverageForFn
       THEN IF cov.summaryFn /\ cov.throws \cap {"getCoverageSummary", "toFixed"} # {}
            THEN thrown
            ELSE IF "files" \in cov.throws THEN thrown
            ELSE IF cov.files # <<>>
                    /\ cov.throws \cap {"fileCoverageFor", "toFixed"} # {}
            THEN thrown
            ELSE [raised |-> FALSE, returned |-> TRUE,
                  rows |-> FileHeader
                           \o (IF cov.summaryFn THEN <<AllFilesRow>> ELSE <<>>)
                           \o [i \in 1..Len(cov.files) |->
                                   FileRow(SortFiles(cov.files)[i])]]
       ELSE IF cov.agg
       THEN IF "toFixed" \in cov.throws THEN thrown
            ELSE [raised |-> FALSE, returned |-> TRUE,
                  rows |-> FileHeader \o <<AllFilesRow>>]
       ELSE fell

\* The body of the second try block.
TableFromJson(cov) ==
    IF cov # None /\ cov.throws \cap {"get", "stringify"} # {}
    THEN [raised |-> TRUE, rows |-> <<>>]
    ELSE [raised |-> FALSE, rows |-> JsonTable(cov)]

\* formatCoverageMarkdownTable without the catch of the second try block.
formatCoverageMarkdownTableUncaught(cov) ==
    LET t == TableFromShape(cov) IN
    IF ~t.raised /\ t.returned THEN [raised |-> FALSE, rows |-> t.rows]
    ELSE TableFromJson(cov)

\* Returns the rows of the table, and `raised` if the function threw.
formatCoverageMarkdownTable(cov) ==
    LET t == TableFromShape(cov) IN
    IF ~t.raised /\ t.returned THEN [raised |-> FALSE, rows |-> t.rows]
    ELSE LET j == TableFromJson(cov) IN
         IF j.raised THEN [raised |-> FALSE, rows |-> PlaceholderTable]
         ELSE j

\* A coverage map as istanbul's: files in the given order, nothing throws.
CoverageMap(files) ==
    [filesFn |-> TRUE, fileCoverageForFn |-> TRUE, summaryFn |-> TRUE,
     agg |-> FALSE, files |-> files, throws |-> {}]

FileA == Cwd \o <<"/", "a">>

FileB == Cwd \o <<"/", "B">>

FileC == <<"c">>

FileX == <<"/", "x", "/", "a">>

(***************************************************************************)
(* Events.  Every delivered event is appended to `hist` with the number of *)
(* remote calls made before it (`at`) and whether the handler raised.      *)
(***************************************************************************)

Event(ev, arg, raised) ==
    [ev |-> ev, arg |-> arg, at |-> Len(calls), raised |-> raised]

\* The events the runner delivered (uploads settling and onTestRunEnd
\* resuming are steps of the reporter's own asynchronous work).
Delivered == {i \in 1..Len(hist) : hist[i].ev \notin {"upload", "resume"}}

\* onTestRunStart without the guard on testRunId.
onTestRunStartUnguarded ==
    /\ hist' = Append(hist, Event("runStart", None, FALSE))
    /\ calls' = Append(calls, StartTestRunCall(calls))
    /\ testRunId' = NewId(calls)
    /\ UNCHANGED <<suites, tests, promises, bufferedLogs, coverage, runEnds>>
    /\ UNCHANGED <<clock, disk, waits>>

onTestRunStart ==
    /\ hist' = Append(hist, Event("runStart", None, FALSE))
    /\ IF testRunId # NoId
       THEN UNCHANGED <<testRunId, calls>>
       ELSE /\ calls' = Append(calls, StartTestRunCall(calls))
            /\ testRunId' = NewId(calls)
    /\ UNCHANGED <<suites, tests, promises, bufferedLogs, coverage, runEnds>>
    /\ UNCHANGED <<clock, disk, waits>>

onTestCaseReady(test) ==
    LET st == ensureTestStarted(test, Fields) IN
    /\ hist' = Append(hist, Event("ready", test.id, st.raised))
    /\ suites' = st.suites
    /\ tests' = st.tests
    /\ bufferedLogs' = st.bufferedLogs
    /\ calls' = st.calls
    /\ UNCHANGED <<testRunId, promises, coverage, runEnds>>
    /\ UNCHANGED <<clock, disk, waits>>

\* The snippet part without the effect of a throwing getCodeSnippet: the
\* log call is made with an empty snippet.
SnippetLogOnFailure(test, k, run, testUUID, cs) ==
    IF test.location = None \/ ~Truthy(LocationFile(test)) THEN cs
    ELSE LET snippet == getCodeSnippet(LocationFile(test), test.location.line) IN
         Append(cs, LogCall(cs, run, testUUID, "INFO", "MARKDOWN",
                            [kind |-> "snippet", error |-> k,
                             lines |-> snippet.lines]))

\* The snippet part of one pass of the error loop: the try block around
\* getCodeSnippet and its log call.
SnippetLog(test, k, run, testUUID, cs) ==
    IF test.location = None \/ ~Truthy(LocationFile(test)) THEN cs
    ELSE LET snippet == getCodeSnippet(LocationFile(test), test.location.line) IN
         IF snippet.raised THEN cs
         ELSE Append(cs, LogCall(cs, run, testUUID, "INFO", "MARKDOWN",
                                 [kind |-> "snippet", error |-> k,
                                  lines |-> snippet.lines]))

\* String(error.message ?? error.name ?? 'Test failed')
ErrorMessage(error) ==
    IF error.message # Undef THEN error.message
    ELSE IF error.name # Undef THEN error.name
    ELSE <<"Test failed">>

RECURSIVE ErrorLoopStackFirst(_, _, _, _, _, _)
\* The error loop logging the stack of an error before its message.
ErrorLoopStackFirst(errors, k, test, run, testUUID, cs) ==
    IF k > Len(errors) THEN cs
    ELSE LET error == errors[k]
             c1 == IF Truthy(error.stack)
                   THEN Append(cs, LogCall(cs, run, testUUID, "ERROR", "MARKDOWN",
                                           [kind |-> "stack", error |-> k,
                                            text |-> error.stack]))
                   ELSE cs
             c2 == Append(c1, LogCall(c1, run, testUUID, "ERROR", "MARKDOWN",
                                      [kind |-> "message", error |-> k,
                                       text |-> ErrorMessage(error)]))
         IN ErrorLoopStackFirst(errors, k + 1, test, run, testUUID,
                                SnippetLog(test, k, run, testUUID, c2))

RECURSIVE ErrorLoop(_, _, _, _, _, _)
\* for (const error of result.errors), from the k-th error on.
ErrorLoop(errors, k, test, run, testUUID, cs) ==
    IF k > Len(errors) THEN cs
    ELSE LET error == errors[k]
             c1 == Append(cs, LogCall(cs, run, testUUID, "ERROR", "MARKDOWN",
                                      [kind |-> "message", error |-> k,
                                       text |-> ErrorMessage(error)]))
             c2 == IF Truthy(error.stack)
                   THEN Append(c1, LogCall(c1, run, testUUID, "ERROR", "MARKDOWN",
                                           [kind |-> "stack", error |-> k,
                                            text |-> error.stack]))
                   ELSE c1
         IN ErrorLoop(errors, k + 1, test, run, testUUID,
                      SnippetLog(test, k, run, testUUID, c2))

\* result?.state ? testStatusMap[result.state] : undefined
ResultStatus(result) ==
    IF result # None /\ result.state # "" THEN testStatusMap(result.state)
    ELSE "undefined"

\* `result` is what test.result() returns: None, or a record with a state
\* ("" when missing) and a list of errors.
onTestCaseResult(test, result) ==
    LET st == ensureTestStarted(test, Fields)
        status == ResultStatus(result)
        c1 == IF result # None /\ Len(result.errors) > 0
              THEN ErrorLoop(result.errors, 1, test, testRunId, st.uuid, st.calls)
              ELSE st.calls
        c2 == IF status # "undefined"
              THEN Append(c1, FinishTestCall(testRunId, st.uuid, status))
              ELSE c1
    IN /\ hist' = Append(hist, Event("result", [test |-> test.id, result |-> result],
                                     st.raised))
       /\ suites' = st.suites
       /\ bufferedLogs' = st.bufferedLogs
       /\ IF st.raised
          THEN /\ tests' = st.tests
               /\ calls' = st.calls
          ELSE /\ tests' = MapDelete(st.tests, test.id)
               /\ calls' = c2
       /\ UNCHANGED <<testRunId, promises, coverage, runEnds>>
       /\ UNCHANGED <<clock, disk, waits>>

\* onUserConsoleLog that attaches a log of an active test to the test that
\* was started last, whatever its task id.
onUserConsoleLogToNewest(log) ==
    /\ hist' = Append(hist, Event("log", log, FALSE))
    /\ IF log.taskId = NoTask
       THEN UNCHANGED <<bufferedLogs, calls>>
       ELSE IF ~MapHas(tests, log.taskId)
       THEN /\ bufferedLogs' =
                  MapSet(bufferedLogs, log.taskId,
                         Append(IF MapHas(bufferedLogs, log.taskId)
                                THEN bufferedLogs[log.taskId] ELSE <<>>, log))
            /\ UNCHANGED calls
       ELSE /\ calls' = LET f == formatConsoleLog(log)
                            ids == {tests[t] : t \in DOMAIN tests}
                            newest == CHOOSE u \in ids : \A v \in ids : v <= u
                        IN Append(calls, LogCall(calls, testRunId, newest,
                                                 f.level, f.format,
                                                 [kind |-> "console", log |-> log]))
            /\ UNCHANGED bufferedLogs
    /\ UNCHANGED <<testRunId, suites, tests, promises, coverage, runEnds>>
    /\ UNCHANGED <<clock, disk, waits>>

\* onUserConsoleLog without the check of the task id: a log without one is
\* buffered like any log of a test that is not active.
onUserConsoleLogUnattributed(log) ==
    /\ hist' = Append(hist, Event("log", log, FALSE))
    /\ IF ~MapHas(tests, log.taskId)
       THEN /\ bufferedLogs' =
                  MapSet(bufferedLogs, log.taskId,
                         Append(IF MapHas(bufferedLogs, log.taskId)
                                THEN bufferedLogs[log.taskId] ELSE <<>>, log))
            /\ UNCHANGED calls
       ELSE /\ calls' = LET f == formatConsoleLog(log) IN
                  Append(calls, LogCall(calls, testRunId, tests[log.taskId],
                                        f.level, f.format,
                                        [kind |-> "console", log |-> log]))
            /\ UNCHANGED bufferedLogs
    /\ UNCHANGED <<testRunId, suites, tests, promises, coverage, runEnds>>
    /\ UNCHANGED <<clock, disk, waits>>

\* `log` is the UserConsoleLog: taskId (NoTask when absent), type, whether
\* its text holds markdown markers, and `n`, which tells the log objects of
\* different events apart.
onUserConsoleLog(log) ==
    /\ hist' = Append(hist, Event("log", log, FALSE))
    /\ IF log.taskId = NoTask
       THEN UNCHANGED <<bufferedLogs, calls>>
       ELSE IF ~MapHas(tests, log.taskId)
       THEN /\ bufferedLogs' =
                  MapSet(bufferedLogs, log.taskId,
                         Append(IF MapHas(bufferedLogs, log.taskId)
                                THEN bufferedLogs[log.taskId] ELSE <<>>, log))
            /\ UNCHANGED calls
       ELSE /\ calls' = LET f == formatConsoleLog(log) IN
                  Append(calls, LogCall(calls, testRunId, tests[log.taskId],
                                        f.level, f.format,
                                        [kind |-> "console", log |-> log]))
            /\ UNCHANGED bufferedLogs
    /\ UNCHANGED <<testRunId, suites, tests, promises, coverage, runEnds>>
    /\ UNCHANGED <<clock, disk, waits>>

\* path.split(/[\\/]/).pop() ?? 'attachment'
BaseName(path) ==
    LET seps == {i \in 1..Len(path) : path[i] \in {"/", "\\"}}
        from == IF seps = {} THEN 0
                ELSE CHOOSE i \in seps : \A j \in seps : j <= i
    IN SubSeq(path, from + 1, Len(path))

\* artifact.file?.name ?? path ?? 'artifact'
ArtifactName(artifact) ==
    IF artifact.fileName # Undef THEN artifact.fileName
    ELSE IF artifact.path # Undef THEN artifact.path
    ELSE <<"artifact">>

\* onTestCaseArtifactRecord without the look-up of the test: the artifact
\* of a test that is not active is logged and uploaded without a test.
onTestCaseArtifactRecordUnattributed(test, artifact) ==
    LET testUUID == IF MapHas(tests, test.id) THEN tests[test.id] ELSE NoId
        c == LogCall(calls, testRunId, testUUID, "INFO", "MARKDOWN",
                     [kind |-> "attachment", name |-> ArtifactName(artifact)])
    IN /\ hist' = Append(hist, Event("artifact", [test |-> test.id,
                                                  artifact |-> artifact], FALSE))
       /\ calls' = Append(calls, c)
       /\ IF Truthy(artifact.path)
          THEN promises' =
                 Append(promises,
                        [state |-> "pending", path |-> artifact.path,
                         contentType |-> artifact.contentType,
                         testUUID |-> testUUID, logUUID |-> c.ret,
                         by |-> Len(hist) + 1])
          ELSE UNCHANGED promises
       /\ waits' = IF Len(promises') > Len(promises)
                   THEN Append(waits, waitForFile(clock)) ELSE waits
       /\ UNCHANGED <<testRunId, suites, tests, bufferedLogs, coverage, runEnds>>
       /\ UNCHANGED <<clock, disk>>

\* `artifact` has a path (Undef when it is not a string), the name of its
\* file object (Undef when absent) and a content type.
onTestCaseArtifactRecord(test, artifact) ==
    /\ hist' = Append(hist, Event("artifact", [test |-> test.id,
                                               artifact |-> artifact], FALSE))
    /\ IF ~MapHas(tests, test.id)
       THEN UNCHANGED <<calls, promises>>
       ELSE LET c == LogCall(calls, testRunId, tests[test.id], "INFO", "MARKDOWN",
                             [kind |-> "attachment",
                              name |-> ArtifactName(artifact)])
            IN /\ calls' = Append(calls, c)
               /\ IF Truthy(artifact.path)
                  THEN promises' =
                         Append(promises,
                                [state |-> "pending", path |-> artifact.path,
                                 contentType |-> artifact.contentType,
                                 testUUID |-> tests[test.id], logUUID |-> c.ret,
                                 by |-> Len(hist) + 1])
                  ELSE UNCHANGED promises
    /\ waits' = IF Len(promises') > Len(promises)
                THEN Append(waits, waitForFile(clock)) ELSE waits
    /\ UNCHANGED <<testRunId, suites, tests, bufferedLogs, coverage, runEnds>>
    /\ UNCHANGED <<clock, disk>>

\* logAttachmentFromPath after `await getBytes(path)` returned the bytes:
\* the attachment is sent with the run identifier read at that moment, and
\* the promise is fulfilled.
UploadSucceeds(i) ==
    /\ promises[i].state = "pending"
    /\ hist' = Append(hist, Event("upload", [idx |-> i, ok |-> TRUE], FALSE))
    /\ calls' = Append(calls, SendAttachmentCall(testRunId, promises[i].testUUID,
                                                 promises[i].logUUID,
                                                 BaseName(promises[i].path)))
    /\ promises' = [promises EXCEPT ![i].state = "fulfilled"]
    /\ UNCHANGED <<testRunId, suites, tests, bufferedLogs, coverage, runEnds>>
    /\ UNCHANGED <<clock, disk, waits>>

\* logAttachmentFromPath when getBytes rejects (the file wait timed out or
\* the file could not be read): the promise is rejected, nothing is sent.
UploadFails(i) ==
    /\ promises[i].state = "pending"
    /\ hist' = Append(hist, Event("upload", [idx |-> i, ok |-> FALSE], TRUE))
    /\ promises' = [promises EXCEPT ![i].state = "rejected"]
    /\ UNCHANGED <<testRunId, suites, tests, bufferedLogs, coverage, calls,
                   runEnds>>
    /\ UNCHANGED <<clock, disk, waits>>

reporterVars ==
    <<testRunId, suites, tests, promises, bufferedLogs, coverage, calls,
      runEnds, hist>>

\* await new Promise((resolve) => setTimeout(resolve, interval)), and what
\* runs when the timer fires.
Sleep(w, after) ==
    [w EXCEPT !.pc = "sleep", !.wake = clock + Interval, !.after = after]

\* The top of the while loop: the timeout check, then the call of
\* fileExists.
LoopTop(w) ==
    IF clock - w.start > Timeout
    THEN [w EXCEPT !.pc = "threw", !.error = "timeout", !.at = clock]
    ELSE [w EXCEPT !.pc = "access", !.stats = <<>>]

\* first.mtimeMs === second.mtimeMs && first.size === second.size
SamplesAgree(stats) ==
    /\ stats[1].mtimeMs = stats[2].mtimeMs
    /\ stats[1].size = stats[2].size

\* `await fileExists(filepath)` settles: with the file present stat is
\* called, otherwise the pass ends with the sleep at the bottom of the loop.
FileExistsSettles(i) ==
    /\ i \in 1..Len(waits)
    /\ waits[i].pc = "access"
    /\ waits' = [waits EXCEPT ![i] =
                    IF MapHas(disk, promises[i].path)
                    THEN [@ EXCEPT !.pc = "stat"]
                    ELSE Sleep(@, "loop")]
    /\ UNCHANGED <<reporterVars, clock, disk>>

\* `await stat(filepath)` settles: it rejects when the file is gone, which
\* nothing in waitForFile catches; otherwise the sample is pushed and the
\* sleep inside the for loop starts.
StatSettles(i) ==
    /\ i \in 1..Len(waits)
    /\ waits[i].pc = "stat"
    /\ waits' = [waits EXCEPT ![i] =
                    IF ~MapHas(disk, promises[i].path)
                    THEN [@ EXCEPT !.pc = "threw", !.error = "stat", !.at = clock]
                    ELSE LET sample == [mtimeMs |-> disk[promises[i].path].mtimeMs,
                                        size |-> disk[promises[i].path].size,
                                        at |-> clock]
                             w == [@ EXCEPT !.stats = Append(@, sample)]
                         IN Sleep(w, IF Len(w.stats) = 2 THEN "compare" ELSE "stat")]
    /\ UNCHANGED <<reporterVars, clock, disk>>

\* A sleep is over: the second stat is called, or the two samples are
\* compared (return, or the sleep at the bottom of the loop), or the next
\* pass of the loop begins.
TimerFires(i) ==
    /\ i \in 1..Len(waits)
    /\ waits[i].pc = "sleep"
    /\ clock >= waits[i].wake
    /\ waits' = [waits EXCEPT ![i] =
                    CASE @.after = "stat" -> [@ EXCEPT !.pc = "stat"]
                      [] @.after = "compare" ->
                             IF SamplesAgree(@.stats)
                             THEN [@ EXCEPT !.pc = "returned", !.at = clock]
                             ELSE Sleep(@, "loop")
                      [] @.after = "loop" -> LoopTop(@)]
    /\ UNCHANGED <<reporterVars, clock, disk>>

\* getBytes after waitForFile returned: readFileSync reads the file, and
\* the upload goes on as in UploadSucceeds.
GetBytesReturns(i) ==
    /\ i \in 1..Len(waits)
    /\ waits[i].pc = "returned"
    /\ MapHas(disk, promises[i].path)
    /\ UploadSucceeds(i)

\* getBytes when waitForFile threw, or readFileSync throws because the file
\* is gone: the catch block logs and rethrows, so the upload is rejected.
GetBytesThrows(i) ==
    /\ i \in 1..Len(waits)
    /\ \/ waits[i].pc = "threw"
       \/ waits[i].pc = "returned" /\ ~MapHas(disk, promises[i].path)
    /\ UploadFails(i)

onCoverage(cov) ==
    /\ hist' = Append(hist, Event("coverage", cov, FALSE))
    /\ coverage' = cov
    /\ UNCHANGED <<testRunId, suites, tests, promises, bufferedLogs, calls,
                   runEnds>>
    /\ UNCHANGED <<clock, disk, waits>>

\* The key of the coverage suite in the suites map.
CoverageKey == <<"__orangebeard_coverage__">>

\* Returns the suites map, the calls and the suite identifier.
getOrStartCoverageSuite(run, suites0, cs) ==
    IF MapHas(suites0, CoverageKey)
    THEN [suites |-> suites0, calls |-> cs, uuid |-> suites0[CoverageKey]]
    ELSE LET c == StartSuiteCall(cs, run, NoId, <<"Coverage">>) IN
         [suites |-> MapSet(suites0, CoverageKey, c.ret),
          calls |-> Append(cs, c), uuid |-> c.ret]

\* The remote calls of reportCoverageSummary that may throw; "none" when
\* every call succeeds.
CoverageFailures == {"none", "startSuite", "startTest", "log", "finishTest"}

\* reportCoverageSummary without its finally block: a failure leaves the
\* snapshot in place.
reportCoverageSummaryKeepsSnapshot(run, suites0, cs, cov, failAt) ==
    IF cov = None
    THEN [suites |-> suites0, calls |-> cs, coverage |-> cov, failed |-> "none"]
    ELSE IF failAt = "startSuite" /\ ~MapHas(suites0, CoverageKey)
    THEN [suites |-> suites0, calls |-> cs, coverage |-> cov,
          failed |-> "startSuite"]
    ELSE LET s == getOrStartCoverageSuite(run, suites0, cs)
             t == StartTestCall(s.calls, run, s.uuid, <<"Coverage report">>,
                                "AFTER", <<"Aggregated coverage summary">>, NoTask)
             c1 == Append(s.calls, t)
             table == formatCoverageMarkdownTable(cov)
             c2 == Append(c1, LogCall(c1, run, t.ret, "INFO", "MARKDOWN",
                                      [kind |-> "coverage", cov |-> cov,
                                       table |-> table.rows]))
             c3 == Append(c2, FinishTestCall(run, t.ret, "PASSED"))
         IN CASE failAt = "startTest" ->
                   [suites |-> s.suites, calls |-> s.calls, coverage |-> cov,
                    failed |-> failAt]
              [] table.raised ->
                   [suites |-> s.suites, calls |-> c1, coverage |-> cov,
                    failed |-> "format"]
              [] failAt = "log" ->
                   [suites |-> s.suites, calls |-> c1, coverage |-> cov,
                    failed |-> failAt]
              [] failAt = "finishTest" ->
                   [suites |-> s.suites, calls |-> c2, coverage |-> cov,
                    failed |-> failAt]
              [] OTHER ->
                   [suites |-> s.suites, calls |-> c3, coverage |-> None,
                    failed |-> "none"]

\* reportCoverageSummary when the remote call named by failAt throws (a call
\* that throws is not recorded in `calls`): the try block ends there, the
\* catch block only prints, and the finally block clears the snapshot.
\* Returns the suites map, the calls, the coverage field afterwards and the
\* call that failed ("none" when no call that was made failed, "format"
\* when formatCoverageMarkdownTable threw).
reportCoverageSummaryWith(run, suites0, cs, cov, failAt) ==
    IF cov = None
    THEN [suites |-> suites0, calls |-> cs, coverage |-> cov, failed |-> "none"]
    ELSE IF failAt = "startSuite" /\ ~MapHas(suites0, CoverageKey)
    THEN [suites |-> suites0, calls |-> cs, coverage |-> None,
          failed |-> "startSuite"]
    ELSE LET s == getOrStartCoverageSuite(run, suites0, cs)
             t == StartTestCall(s.calls, run, s.uuid, <<"Coverage report">>,
                                "AFTER", <<"Aggregated coverage summary">>, NoTask)
             c1 == Append(s.calls, t)
             table == formatCoverageMarkdownTable(cov)
             c2 == Append(c1, LogCall(c1, run, t.ret, "INFO", "MARKDOWN",
                                      [kind |-> "coverage", cov |-> cov,
                                       table |-> table.rows]))
             c3 == Append(c2, FinishTestCall(run, t.ret, "PASSED"))
         IN CASE failAt = "startTest" ->
                   [suites |-> s.suites, calls |-> s.calls, coverage |-> None,
                    failed |-> failAt]
              [] table.raised ->
                   [suites |-> s.suites, calls |-> c1, coverage |-> None,
                    failed |-> "format"]
              [] failAt = "log" ->
                   [suites |-> s.suites, calls |-> c1, coverage |-> None,
                    failed |-> failAt]
              [] failAt = "finishTest" ->
                   [suites |-> s.suites, calls |-> c2, coverage |-> None,
                    failed |-> failAt]
              [] OTHER ->
                   [suites |-> s.suites, calls |-> c3, coverage |-> None,
                    failed |-> "none"]

\* reportCoverageSummary when every remote call succeeds.
reportCoverageSummary(run, suites0, cs, cov) ==
    reportCoverageSummaryWith(run, suites0, cs, cov, "none")

\* onTestRunEnd up to its first await: Promise.all takes the promises that
\* are in the array now (the first n), and the activation waits.
onTestRunEnd ==
    /\ hist' = Append(hist, Event("runEnd", None, FALSE))
    /\ runEnds' = Append(runEnds, [pc |-> "waiting", n |-> Len(promises),
                                   by |-> Len(hist) + 1, failed |-> "none"])
    /\ UNCHANGED <<testRunId, suites, tests, promises, bufferedLogs, coverage,
                   calls>>
    /\ UNCHANGED <<clock, disk, waits>>

\* A join that does not wait: pending uploads count as done.
AllStateNoWait(n) ==
    IF \E i \in 1..n : promises[i].state = "rejected" THEN "rejected"
    ELSE "fulfilled"

\* Promise.all over the first n promises: rejected as soon as one of them
\* is rejected, fulfilled when all are fulfilled.
AllState(n) ==
    IF \E i \in 1..n : promises[i].state = "rejected" THEN "rejected"
    ELSE IF \A i \in 1..n : promises[i].state = "fulfilled" THEN "fulfilled"
    ELSE "pending"

\* onTestRunEnd after `await Promise.all(this.promises)`: a rejection is
\* rethrown by the await and ends the activation; otherwise the coverage
\* summary is reported, where the remote call named by failAt throws, and
\* the run is finished.  The activation records the call that failed.
RunEndResumesWith(j, failAt) ==
    /\ runEnds[j].pc = "waiting"
    /\ AllState(runEnds[j].n) # "pending"
    /\ IF AllState(runEnds[j].n) = "rejected"
       THEN /\ hist' = Append(hist, Event("resume", j, TRUE))
            /\ runEnds' = [runEnds EXCEPT ![j].pc = "rejected"]
            /\ UNCHANGED <<suites, coverage, calls>>
       ELSE LET r == reportCoverageSummaryWith(testRunId, suites, calls,
                                               coverage, failAt) IN
            /\ hist' = Append(hist, Event("resume", j, FALSE))
            /\ runEnds' = [runEnds EXCEPT ![j].pc = "done",
                                          ![j].failed = r.failed]
            /\ suites' = r.suites
            /\ coverage' = r.coverage
            /\ calls' = Append(r.calls, FinishTestRunCall(testRunId))
    /\ UNCHANGED <<testRunId, tests, promises, bufferedLogs>>
    /\ UNCHANGED <<clock, disk, waits>>

\* The resumption when every remote call succeeds.
RunEndResumes(j) == RunEndResumesWith(j, "none")

(***************************************************************************)
(* The state after construction                                            *)
(***************************************************************************)

Init ==
    /\ testRunId = NoId
    /\ suites = EmptyMap
    /\ tests = EmptyMap
    /\ promises = <<>>
    /\ bufferedLogs = EmptyMap
    /\ coverage = None
    /\ calls = <<>>
    /\ runEnds = <<>>
    /\ hist = <<>>
    /\ clock = 0
    /\ disk = EmptyMap
    /\ waits = <<>>

(***************************************************************************)
(* The runner's objects the events are drawn from                          *)
(***************************************************************************)

\* A test file under the working directory.
ModuleM ==
    [moduleId |-> <<"/", "w", "/", "m">>, rel |-> <<"m">>,
     projectName |-> Undef, name |-> Undef]

LocationF == [file |-> <<"f">>, line |-> 3]

\* describe('o', () => describe('i', () => it('x'))): the test's suite is
\* i, whose parent is o, whose parent is the module (which has no name).
TestT1 ==
    [id |-> "t1", name |-> <<"x">>, module |-> ModuleM,
     chain |-> << <<"i">>, <<"o">>, Undef >>, location |-> LocationF]

\* A test directly in describe('o').
TestT2 ==
    [id |-> "t2", name |-> <<"y">>, module |-> ModuleM,
     chain |-> << <<"o">>, Undef >>, location |-> None]

\* A second test in describe('i'), named like a hook.
TestT3 ==
    [id |-> "t3", name |-> <<"s","e","t","U","p">>, module |-> ModuleM,
     chain |-> << <<"i">>, <<"o">>, Undef >>, location |-> None]

\* A test object without module and without suite.
TestT0 ==
    [id |-> "t0", name |-> <<"z">>, module |-> None, chain |-> <<>>,
     location |-> None]

\* A test whose module has only a blank project name and whose only scope
\* has a blank name.
TestBlank ==
    [id |-> "tb", name |-> <<"w">>,
     module |-> [moduleId |-> Undef, rel |-> Undef, projectName |-> <<" ">>,
                 name |-> Undef],
     chain |-> << <<" ", "\t">>, Undef >>, location |-> None]

\* A test located in a file that cannot be read.
TestUnreadable ==
    [id |-> "tu", name |-> <<"u">>, module |-> ModuleM,
     chain |-> << <<"o">>, Undef >>,
     location |-> [file |-> <<"g">>, line |-> 3]]

\* A test located beyond the last line of its file.
TestBeyond ==
    [id |-> "ty", name |-> <<"v">>, module |-> ModuleM,
     chain |-> << <<"o">>, Undef >>,
     location |-> [file |-> <<"f">>, line |-> 9]]

\* A test in describe('x|y').
TestPipe ==
    [id |-> "tp", name |-> <<"p">>, module |-> ModuleM,
     chain |-> << <<"x", "|", "y">>, Undef >>, location |-> None]

\* A test whose own suite is named x and whose suite's parent is named y.
TestNested ==
    [id |-> "tn", name |-> <<"q">>, module |-> ModuleM,
     chain |-> << <<"x">>, <<"y">>, Undef >>, location |-> None]

\* A test of a module without id whose project is named like the key of
\* the coverage suite.
TestCoverageNamed ==
    [id |-> "tc", name |-> <<"r">>,
     module |-> [moduleId |-> Undef, rel |-> Undef,
                 projectName |-> CoverageKey, name |-> Undef],
     chain |-> <<>>, location |-> None]

TestCases ==
    {TestT1, TestT2, TestT3, TestT0, TestBlank, TestUnreadable, TestBeyond,
     TestPipe, TestNested, TestCoverageNamed}

TestById(id) == CHOOSE t \in TestCases : t.id = id

ErrorA ==
    [message |-> <<"Expected failure">>, name |-> <<"Error">>,
     stack |-> <<"at f:3">>]

\* An error without message and without stack.
ErrorB == [message |-> Undef, name |-> <<"TypeError">>, stack |-> Undef]

ResultOf(state, errors) == [state |-> state, errors |-> errors]

(***************************************************************************)
(* Spec: the life cycle of a run with two tests                            *)
(***************************************************************************)

\* Events delivered in a behaviour of Spec.
MaxEvents == 4

\* Fewer than n events have been delivered.
Budget(n) == Cardinality(Delivered) < n

RunTests == {TestT1, TestT2}

RunResults == {ResultOf("passed", <<>>), ResultOf("failed", <<ErrorA>>)}

Next ==
    \/ Budget(MaxEvents) /\ onTestRunStart
    \/ \E t \in RunTests : Budget(MaxEvents) /\ onTestCaseReady(t)
    \/ \E t \in RunTests, r \in RunResults :
           Budget(MaxEvents) /\ onTestCaseResult(t, r)
    \/ Budget(MaxEvents) /\ onTestRunEnd
    \/ \E j \in 1..Len(runEnds) : RunEndResumes(j)

Spec == Init /\ [][Next]_vars

(***************************************************************************)
(* Reading the history                                                     *)
(***************************************************************************)

\* The indices of the remote calls made by the k-th entry of hist.
CallsOf(k) ==
    {i \in 1..Len(calls) :
        /\ i > hist[k].at
        /\ (k < Len(hist) => i <= hist[k + 1].at)}

\* The indices of the calls of one operation.
CallsTo(op) == {i \in 1..Len(calls) : calls[i].op = op}

\* The entry of hist that made the i-th call.
EventOfCall(i) ==
    CHOOSE k \in 1..Len(hist) : i \in CallsOf(k)

RECURSIVE SuitePathOf(_)
\* The path of names of the remote suite created by the i-th call, read
\* from the parents the startSuite calls carried.
SuitePathOf(i) ==
    IF calls[i].parent = NoId THEN <<calls[i].name>>
    ELSE Append(SuitePathOf(calls[i].parent), calls[i].name)

(***************************************************************************)
(* Claims checked under Spec                                               *)
(***************************************************************************)

RunStarts == {k \in 1..Len(hist) : hist[k].ev = "runStart"}

\* C1: run-started is idempotent.  However many run-started events were
\* delivered, exactly one startTestRun call was made, by the first of them,
\* and testRunId is the identifier that call returned; with no run-started
\* event there is no such call.
C1_RunStartIdempotent ==
    IF RunStarts = {}
    THEN CallsTo("startTestRun") = {} /\ testRunId = NoId
    ELSE LET first == CHOOSE k \in RunStarts : \A j \in RunStarts : k <= j IN
         /\ Cardinality(CallsTo("startTestRun")) = 1
         /\ \A c \in CallsTo("startTestRun") :
                c \in CallsOf(first) /\ testRunId = calls[c].ret

\* A second run-started event was delivered while the run was open.
C1_Witness ==
    /\ Cardinality(RunStarts) >= 2
    /\ Last(hist).ev = "runStart"
    /\ CallsTo("finishTestRun") = {}

\* The path buildSuitePath gives the test a startTest call was made for.
PathOfStartTest(i) == buildSuitePath(TestById(calls[i].task))

\* C6: suite creation is memoized per path prefix.  No two startSuite calls
\* create a suite of the same path of names; and when a test is started
\* whose full suite path was resolved before, the later event makes no
\* startSuite call and the test is started in the same suite.
C6_SuiteMemoized ==
    /\ \A i, j \in CallsTo("startSuite") :
           i # j => SuitePathOf(i) # SuitePathOf(j)
    /\ \A a, b \in CallsTo("startTest") :
           (a < b /\ PathOfStartTest(a) = PathOfStartTest(b))
               => /\ calls[b].suite = calls[a].suite
                  /\ CallsOf(EventOfCall(b)) \cap CallsTo("startSuite") = {}

\* A full suite path was resolved a second time, and two tests share a
\* path prefix.
C6_Witness ==
    /\ \E a, b \in CallsTo("startTest") :
           a < b /\ PathOfStartTest(a) = PathOfStartTest(b)
    /\ \E a, b \in CallsTo("startTest") :
           /\ PathOfStartTest(a) # PathOfStartTest(b)
           /\ PathOfStartTest(a)[1] = PathOfStartTest(b)[1]

\* C7: a readiness event for a test that is in the active map makes no
\* remote call and leaves the test map (hence the test's remote identifier)
\* and the suite map as they are.
C7_ReadyWhileActive ==
    [][(/\ Len(hist') > Len(hist)
        /\ Last(hist').ev = "ready"
        /\ Last(hist').arg \in DOMAIN tests)
           => (calls' = calls /\ tests' = tests /\ suites' = suites)]_vars

\* A readiness event was delivered for a test that was already active.
C7_Witness ==
    /\ Len(hist) >= 2
    /\ Last(hist).ev = "ready"
    /\ hist[Len(hist) - 1].ev = "ready"
    /\ hist[Len(hist) - 1].arg = Last(hist).arg
    /\ Last(hist).arg \in DOMAIN tests
    /\ Cardinality({i \in CallsTo("startTest") :
                       calls[i].task = Last(hist).arg}) = 1

\* run-started, test-ready, test-result `failed` with one error that has a
\* message, run-ended (which then resumed), for test t.
FailedRunScenario(t) ==
    /\ Len(hist) = 5
    /\ hist[1].ev = "runStart"
    /\ hist[2].ev = "ready" /\ hist[2].arg = t.id
    /\ hist[3].ev = "result"
    /\ hist[3].arg = [test |-> t.id, result |-> ResultOf("failed", <<ErrorA>>)]
    /\ hist[4].ev = "runEnd"
    /\ hist[5].ev = "resume"

\* C9: after the scenario above the remote calls hold exactly one startTest,
\* an ERROR log for that test, exactly one finishTest, with status FAILED and
\* after the error log, and exactly one finishTestRun, which is the last
\* call.
C9_FailedRunCalls ==
    \A t \in RunTests :
        FailedRunScenario(t) =>
            /\ Cardinality(CallsTo("startTest")) = 1
            /\ Cardinality(CallsTo("finishTest")) = 1
            /\ \A s \in CallsTo("startTest"), f \in CallsTo("finishTest") :
                   /\ calls[f].test = calls[s].ret
                   /\ calls[f].status = "FAILED"
                   /\ \E l \in CallsTo("log") :
                          /\ calls[l].level = "ERROR"
                          /\ calls[l].test = calls[s].ret
                          /\ s < l /\ l < f
            /\ CallsTo("finishTestRun") = {Len(calls)}

C9_Witness == \E t \in RunTests : FailedRunScenario(t)

RECURSIVE Reverse(_)
Reverse(s) == IF s = <<>> THEN <<>> ELSE Append(Reverse(Tail(s)), s[1])

\* The path the claim gives a test: the module path, then the names of the
\* enclosing scopes outermost first, without empty or blank names.
ClaimedSuitePath(test) ==
    FilterSegments(
        (IF test.module # None THEN <<ModuleSegment(test.module)>> ELSE <<>>)
        \o Reverse(SelectSeq(test.chain, LAMBDA n : n # Undef)))

\* C15: the suite path of a test is the module path followed by the names
\* of its enclosing scopes outermost first: the remote chain of the suite
\* every test is started in reads module, outer scope, inner scope; so the
\* test in `i` inside `o` and the test directly in `o` are started under the
\* same remote suites for the module and for `o`.
C15_SuitePathOutermostFirst ==
    /\ \A s \in CallsTo("startTest") :
           SuitePathOf(calls[s].suite) = ClaimedSuitePath(TestById(calls[s].task))
    /\ \A a, b \in CallsTo("startTest") :
           (calls[a].task = TestT1.id /\ calls[b].task = TestT2.id)
               => SuitePathOf(calls[b].suite)
                    = SubSeq(SuitePathOf(calls[a].suite), 1, 2)

\* What holds instead: the remote chain is the module path followed by the
\* scopes innermost first, which is the claimed path for tests with at most
\* one enclosing scope.
C15_ScopesInnermostFirst ==
    \A s \in CallsTo("startTest") :
        LET t == TestById(calls[s].task)
            scopes == SelectSeq(t.chain, LAMBDA n : n # Undef)
        IN /\ SuitePathOf(calls[s].suite) = <<ModuleSegment(t.module)>> \o scopes
           /\ Len(scopes) <= 1 =>
                  SuitePathOf(calls[s].suite) = ClaimedSuitePath(t)

\* A run was active before the k-th entry of hist: a startTestRun call had
\* been made whose run no finishTestRun call had closed yet.
RunActiveBefore(k) ==
    \E s \in CallsTo("startTestRun") :
        /\ s <= hist[k].at
        /\ ~\E f \in CallsTo("finishTestRun") :
               f <= hist[k].at /\ calls[f].run = calls[s].ret

\* The run-started event k opened a run: it made exactly one call, a
\* startTestRun, and every later call up to the next startTestRun carries
\* the identifier it returned.
OpensRun(k) ==
    /\ Cardinality(CallsOf(k)) = 1
    /\ \A s \in CallsOf(k) :
           /\ calls[s].op = "startTestRun"
           /\ \A c \in (s + 1)..Len(calls) :
                  (\A x \in (s + 1)..c : calls[x].op # "startTestRun")
                      => calls[c].run = calls[s].ret

\* C17: whenever a run-started event arrives and no run is active,
\* initially or after the previous run was finalized by run-ended, a new
\* remote run is opened with startTestRun and its identifier is the one the
\* following suite, test and log calls carry.
C17_RunStartOpensRun ==
    \A k \in RunStarts : ~RunActiveBefore(k) => OpensRun(k)

\* The same for the first run only: a run-started event before which no
\* run was ever opened opens one.
C17_FirstRunStartOpensRun ==
    \A k \in RunStarts :
        (\A s \in CallsTo("startTestRun") : s > hist[k].at) => OpensRun(k)

\* A run-started event arrived after the run had been opened and closed,
\* and made no call.
C17_RunStartAfterClose ==
    \E k \in RunStarts :
        /\ \E f \in CallsTo("finishTestRun") :
               f <= hist[k].at /\ calls[f].run = testRunId /\ testRunId # NoId
        /\ CallsOf(k) = {}

\* The startTest calls made for the test with runner identifier t.
StartsOf(t) == {s \in CallsTo("startTest") : calls[s].task = t}

\* C21: for every runner test-case identifier at most one remote test is
\* created, over any sequence of readiness and result events for it,
\* including a result followed by a further readiness or result event.
C21_OneRemoteTestPerId ==
    \A t \in {x.id : x \in TestCases} : Cardinality(StartsOf(t)) <= 1

\* What holds instead: two startTest calls for one identifier are separated
\* by a result event for it, made no later than the second of them.
C21_OnePerActivePeriod ==
    \A t \in {x.id : x \in TestCases} :
        \A a, b \in StartsOf(t) :
            a < b => \E k \in 1..EventOfCall(b) :
                         /\ hist[k].ev = "result"
                         /\ hist[k].arg.test = t
                         /\ k >= EventOfCall(a)

\* A test was reported, and a later readiness event for the same identifier
\* started a second remote test.
C21_StartedAgainAfterResult ==
    \E t \in {x.id : x \in TestCases} :
        \E a, b \in StartsOf(t) :
            /\ a < b
            /\ hist[EventOfCall(b)].ev = "ready"
            /\ \E f \in CallsTo("finishTest") :
                   calls[f].test = calls[a].ret /\ f < b

(***************************************************************************)
(* SpecLogs: console logs around the start and the result of two tests     *)
(***************************************************************************)

\* Events delivered in a behaviour of SpecLogs.
MaxLogEvents == 4

LogTests == {TestT1, TestT2}

LogResults == {ResultOf("passed", <<>>), ResultOf("failed", <<ErrorA, ErrorB>>)}

\* The console logs delivered; n is set on delivery.
LogInputs ==
    {[taskId |-> "t1", type |-> "stdout", markdown |-> FALSE, n |-> 0],
     [taskId |-> "t1", type |-> "stderr", markdown |-> TRUE, n |-> 0],
     [taskId |-> "t2", type |-> "stdout", markdown |-> FALSE, n |-> 0],
     [taskId |-> NoTask, type |-> "stdout", markdown |-> FALSE, n |-> 0]}

NextLogs ==
    \/ \E t \in LogTests : Budget(MaxLogEvents) /\ onTestCaseReady(t)
    \/ \E t \in LogTests, r \in LogResults :
           Budget(MaxLogEvents) /\ onTestCaseResult(t, r)
    \/ \E l \in LogInputs :
           /\ Budget(MaxLogEvents)
           /\ onUserConsoleLog([l EXCEPT !.n = Len(hist) + 1])

SpecLogs == Init /\ [][NextLogs]_vars

\* The calls that forwarded a console log of task t.
ConsoleCalls(t) ==
    {i \in CallsTo("log") :
        calls[i].src.kind = "console" /\ calls[i].src.log.taskId = t}

\* The console-log events observed for task t.
LogEvents(t) ==
    {k \in 1..Len(hist) : hist[k].ev = "log" /\ hist[k].arg.taskId = t}

\* C2: console logs of a test are forwarded in the order they were
\* observed, and while the test is known (in the active map) every log
\* observed for it so far, before or after it became known, has been
\* forwarded.
C2_LogsForwardedInOrder ==
    \A t \in {x.id : x \in TestCases} :
        /\ \A i, j \in ConsoleCalls(t) :
               i < j => calls[i].src.log.n < calls[j].src.log.n
        /\ t \in DOMAIN tests =>
               \A k \in LogEvents(t) :
                   \E i \in ConsoleCalls(t) : calls[i].src.log = hist[k].arg

\* A log observed before its test was known and one observed after have
\* both been forwarded: the first by the event that started the test, the
\* second by its own event.
C2_Witness ==
    \E t \in DOMAIN tests : \E i, j \in ConsoleCalls(t) :
        /\ i < j
        /\ hist[EventOfCall(i)].ev = "ready"
        /\ calls[i].src.log.n < EventOfCall(i)
        /\ hist[EventOfCall(j)].ev = "log"

\* The calls a step appended.
NewCalls == SubSeq(calls', Len(calls) + 1, Len(calls'))

\* C8: a test-case-result event for a test that is not in the active map
\* (and has a suite path) first creates the test: the calls of the event are
\* startSuite calls, then one startTest for the test, then the logs that
\* were buffered for it, in order (and the buffer is gone), then the error
\* logs, one message log per error, and last the finishTest call for the
\* test just started.
C8_ResultCreatesTestFirst ==
    [][(/\ Len(hist') > Len(hist)
        /\ Last(hist').ev = "result"
        /\ Last(hist').arg.test \notin DOMAIN tests
        /\ buildSuitePath(TestById(Last(hist').arg.test)) # <<>>)
           =>
       LET t == Last(hist').arg.test
           r == Last(hist').arg.result
           buf == IF MapHas(bufferedLogs, t) THEN bufferedLogs[t] ELSE <<>>
           seg == NewCalls
       IN \E p \in 1..Len(seg) :
           /\ seg[p].op = "startTest" /\ seg[p].task = t
           /\ \A i \in 1..(p - 1) : seg[i].op = "startSuite"
           /\ Len(seg) >= p + Len(buf)
           /\ \A q \in 1..Len(buf) :
                  /\ seg[p + q].op = "log"
                  /\ seg[p + q].test = seg[p].ret
                  /\ seg[p + q].src = [kind |-> "console", log |-> buf[q]]
           /\ ~MapHas(bufferedLogs', t)
           /\ \A i \in (p + Len(buf) + 1)..Len(seg) :
                  \/ /\ seg[i].op = "log"
                     /\ seg[i].test = seg[p].ret
                     /\ seg[i].src.kind \in {"message", "stack", "snippet"}
                  \/ /\ seg[i].op = "finishTest"
                     /\ seg[i].test = seg[p].ret
                     /\ i = Len(seg)
           /\ Cardinality({i \in 1..Len(seg) :
                  seg[i].op = "log" /\ seg[i].src.kind = "message"})
                  = Len(r.errors)
           /\ r.state \in OwnStatusKeys => seg[Len(seg)].op = "finishTest"
      ]_vars

\* A result arrived for a test never made ready, with a log buffered for
\* it and errors reported: the event made the startTest, the flushed log,
\* the error logs and the finishTest.
C8_Witness ==
    /\ Len(hist) > 0
    /\ Last(hist).ev = "result"
    /\ \A k \in 1..Len(hist) :
           hist[k].ev = "ready" => hist[k].arg # Last(hist).arg.test
    /\ \E s, l, e, f \in CallsOf(Len(hist)) :
           /\ calls[s].op = "startTest"
           /\ calls[l].op = "log" /\ calls[l].src.kind = "console"
           /\ calls[e].op = "log" /\ calls[e].src.kind = "stack"
           /\ calls[f].op = "finishTest"
           /\ s < l /\ l < e /\ e < f

\* C12: a console-log event without a task id is dropped.  Its step makes
\* no remote call, appends to no buffer, and leaves the run id, the suite
\* map, the test map, the pending uploads and the coverage snapshot as they
\* were.
C12_LogWithoutTaskDropped ==
    [][(/\ Len(hist') > Len(hist)
        /\ Last(hist').ev = "log"
        /\ Last(hist').arg.taskId = NoTask)
           => /\ calls' = calls
              /\ bufferedLogs' = bufferedLogs
              /\ testRunId' = testRunId
              /\ suites' = suites
              /\ tests' = tests
              /\ promises' = promises
              /\ coverage' = coverage
      ]_vars

\* A log without a task id was delivered while one test was active and a
\* log of another test was buffered.
C12_Witness ==
    /\ Len(hist) > 0
    /\ Last(hist).ev = "log"
    /\ Last(hist).arg.taskId = NoTask
    /\ DOMAIN tests # {}
    /\ DOMAIN bufferedLogs # {}

\* The positions in NewCalls of the startTest calls.
NewStarts == {p \in 1..Len(NewCalls) : NewCalls[p].op = "startTest"}

\* C22: each buffered console log is consumed exactly once.  The step that
\* creates the test of identifier t forwards the entries buffered for t, in
\* the order they were buffered, to that test, right after its startTest
\* call, and removes the buffer of t; it forwards no log of another
\* identifier and leaves the buffers of the other identifiers as they were.
\* And no console log is ever forwarded twice.
C22_BufferConsumedOnce ==
    /\ [](\A i, j \in CallsTo("log") :
             (/\ i # j
              /\ calls[i].src.kind = "console"
              /\ calls[j].src.kind = "console")
                 => calls[i].src.log # calls[j].src.log)
    /\ [][\A p \in NewStarts :
             LET t == NewCalls[p].task
                 buf == IF MapHas(bufferedLogs, t) THEN bufferedLogs[t] ELSE <<>>
             IN /\ Len(NewCalls) >= p + Len(buf)
                /\ \A q \in 1..Len(buf) :
                       /\ NewCalls[p + q].op = "log"
                       /\ NewCalls[p + q].test = NewCalls[p].ret
                       /\ NewCalls[p + q].src = [kind |-> "console", log |-> buf[q]]
                /\ \A i \in 1..Len(NewCalls) :
                       (NewCalls[i].op = "log" /\ NewCalls[i].src.kind = "console")
                           => i \in (p + 1)..(p + Len(buf))
                /\ ~MapHas(bufferedLogs', t)
                /\ \A u \in DOMAIN bufferedLogs \ {t} :
                       MapHas(bufferedLogs', u) /\ bufferedLogs'[u] = bufferedLogs[u]
         ]_vars

\* Two logs buffered for one test were flushed, in order, by the event that
\* created it, while a log buffered for another test stayed buffered.
C22_Witness ==
    /\ Len(hist) > 0
    /\ Last(hist).ev \in {"ready", "result"}
    /\ \E s, a, b \in CallsOf(Len(hist)) :
           /\ calls[s].op = "startTest"
           /\ b = a + 1 /\ a = s + 1
           /\ calls[a].op = "log" /\ calls[a].src.kind = "console"
           /\ calls[b].op = "log" /\ calls[b].src.kind = "console"
           /\ calls[a].src.log.n < calls[b].src.log.n
           /\ calls[a].src.log.taskId = calls[s].task
           /\ ~MapHas(bufferedLogs, calls[s].task)
    /\ \E u \in DOMAIN bufferedLogs : bufferedLogs[u] # <<>>

\* The startTest calls made for task t before the i-th call.
StartsBefore(t, i) == {s \in StartsOf(t) : s < i}

\* C28: every forwarded console log is attached to the remote test its own
\* task id was mapped to when it was forwarded.  The remote test of the log
\* call is the one created by the latest startTest call made for the log's
\* task id before it, and that test was still in the active map: the log
\* call is made by the event that created the test, or no result of the task
\* was handled in between.
C28_LogAttachedToOwnTest ==
    \A i \in CallsTo("log") :
        calls[i].src.kind = "console" =>
            LET t == calls[i].src.log.taskId
                S == StartsBefore(t, i)
            IN /\ t # NoTask
               /\ S # {}
               /\ LET s == CHOOSE x \in S : \A y \in S : y <= x IN
                  /\ calls[i].test = calls[s].ret
                  /\ \/ EventOfCall(s) = EventOfCall(i)
                     \/ \A e \in EventOfCall(s)..(EventOfCall(i) - 1) :
                            ~(hist[e].ev = "result" /\ hist[e].arg.test = t)

\* With two tests active, a log of the test started first was forwarded by
\* its own event to that test, and a buffered log was forwarded by the event
\* that created its test.
C28_Witness ==
    /\ Cardinality(DOMAIN tests) = 2
    /\ \E i, j \in CallsTo("log") :
           /\ calls[i].src.kind = "console" /\ calls[j].src.kind = "console"
           /\ hist[EventOfCall(i)].ev = "log"
           /\ \E s \in CallsTo("startTest") :
                  s < i /\ calls[s].ret > calls[i].test
           /\ hist[EventOfCall(j)].ev = "ready"

(***************************************************************************)
(* SpecUploads: artifacts, their uploads, coverage and the end of the run  *)
(***************************************************************************)

\* Events delivered in a behaviour of SpecUploads.
MaxUploadEvents == 4

ArtifactInputs ==
    {[path |-> <<"d", "/", "s", ".", "p", "n", "g">>, fileName |-> Undef,
      contentType |-> "image/png"],
     [path |-> Undef, fileName |-> Undef, contentType |-> "text/plain"]}

\* Two coverage snapshots.
CoverageInputs == {CoverageMap(<<FileA>>), CoverageMap(<<FileB, FileA>>)}

NextUploads ==
    \/ Budget(MaxUploadEvents) /\ onTestCaseReady(TestT1)
    \/ Budget(MaxUploadEvents) /\ onTestCaseResult(TestT1, ResultOf("passed", <<>>))
    \/ \E a \in ArtifactInputs :
           Budget(MaxUploadEvents) /\ onTestCaseArtifactRecord(TestT1, a)
    \/ \E c \in CoverageInputs : Budget(MaxUploadEvents) /\ onCoverage(c)
    \/ Budget(MaxUploadEvents) /\ onTestRunEnd
    \/ \E i \in 1..Len(promises) : UploadSucceeds(i)
    \/ \E i \in 1..Len(promises) : UploadFails(i)
    \/ \E j \in 1..Len(runEnds) : RunEndResumes(j)

SpecUploads == Init /\ [][NextUploads]_vars

\* The uploads scheduled by artifact events that precede the run-ended
\* event of activation j.
ScheduledBefore(j) ==
    {i \in 1..Len(promises) : promises[i].by < runEnds[j].by}

\* The entries of hist before the k-th at which upload i settled.
SettledBefore(i, k) ==
    {u \in 1..(k - 1) : hist[u].ev = "upload" /\ hist[u].arg.idx = i}

\* C3: whenever finishTestRun has been called, by the resumption of some
\* onTestRunEnd, every upload scheduled before that run-ended event had
\* settled (its file read resolved or rejected) before the resumption.
C3_ClosedAfterUploads ==
    \A c \in CallsTo("finishTestRun") :
        LET k == EventOfCall(c) IN
        /\ hist[k].ev = "resume"
        /\ \A i \in ScheduledBefore(hist[k].arg) : SettledBefore(i, k) # {}

\* The run was closed by a run-ended event that had an upload to wait for,
\* which was still pending when the event was delivered.
C3_Witness ==
    \E c \in CallsTo("finishTestRun") :
        LET k == EventOfCall(c) IN
        \E i \in ScheduledBefore(hist[k].arg) :
            \E u \in SettledBefore(i, k) : u > runEnds[hist[k].arg].by

\* The resumptions of activation j that called finishTestRun.
ClosedBy(j) ==
    {c \in CallsTo("finishTestRun") :
        hist[EventOfCall(c)].ev = "resume" /\ hist[EventOfCall(c)].arg = j}

\* C4: once the uploads an onTestRunEnd waits for have settled, resolved or
\* rejected, and the activation has run on, it has closed the run.  (An
\* activation that has stopped waiting makes no further step, so this is
\* the claim's `eventually closed` in the form a finite run refutes.)
C4_ClosedOnceUploadsSettled ==
    \A j \in 1..Len(runEnds) :
        runEnds[j].pc # "waiting" => ClosedBy(j) # {}

\* The most recently received coverage snapshot.
LatestCoverage ==
    LET ks == {k \in 1..Len(hist) : hist[k].ev = "coverage"}
    IN hist[CHOOSE k \in ks : \A j \in ks : j <= k].arg

\* The calls among NewCalls that start a synthetic coverage test.
NewCoverageTests ==
    {i \in 1..Len(NewCalls) :
        /\ NewCalls[i].op = "startTest"
        /\ NewCalls[i].name = <<"Coverage report">>}

\* C10: the coverage snapshot is consumed exactly once.  When an
\* onTestRunEnd runs on after its uploads settled and a snapshot is held,
\* the snapshot is the most recently received one, exactly one `Coverage
\* report` test of type AFTER is started, one log is rendered from that
\* snapshot, and the snapshot is cleared; when no snapshot is held no
\* coverage test is started.
C10_CoverageConsumedOnce ==
    [][(Len(hist') > Len(hist) /\ Last(hist').ev = "resume")
           => IF coverage = None
              THEN NewCoverageTests = {}
              ELSE /\ coverage = LatestCoverage
                   /\ coverage' = None
                   /\ Cardinality(NewCoverageTests) = 1
                   /\ \A i \in NewCoverageTests :
                          /\ NewCalls[i].type = "AFTER"
                          /\ \E l \in 1..Len(NewCalls) :
                                 /\ l > i
                                 /\ NewCalls[l].op = "log"
                                 /\ NewCalls[l].test = NewCalls[i].ret
                                 /\ NewCalls[l].src.kind = "coverage"
                                 /\ NewCalls[l].src.cov = coverage
      ]_vars

\* The same for the activations that are not ended by a rejected upload:
\* on these the snapshot is consumed exactly once.
C10_OnCompletedRunEnd ==
    [][(/\ Len(hist') > Len(hist)
        /\ Last(hist').ev = "resume"
        /\ ~Last(hist').raised)
           => IF coverage = None
              THEN NewCoverageTests = {}
              ELSE /\ coverage = LatestCoverage
                   /\ coverage' = None
                   /\ Cardinality(NewCoverageTests) = 1
      ]_vars

\* The test of a ready, result or artifact entry of hist.
TestOfEvent(k) ==
    IF hist[k].ev = "ready" THEN hist[k].arg ELSE hist[k].arg.test

\* Test t was active before the k-th entry of hist, told from the events
\* alone: the latest ready or result event of t before k is a ready event.
ActiveBefore(t, k) ==
    LET es == {e \in 1..(k - 1) :
                  hist[e].ev \in {"ready", "result"} /\ TestOfEvent(e) = t}
    IN /\ es # {}
       /\ hist[CHOOSE e \in es : \A x \in es : x <= e].ev = "ready"

\* C13: an artifact event whose test is not in the active map is ignored.
\* Its step makes no remote call and leaves the pending uploads as they
\* were; and no later event sends it: every attachment ever sent belongs to
\* an upload scheduled by an artifact event whose test was active then
\* (readiness seen, result not yet reported).
C13_ArtifactOfUnknownTestIgnored ==
    /\ [][(/\ Len(hist') > Len(hist)
           /\ Last(hist').ev = "artifact"
           /\ Last(hist').arg.test \notin DOMAIN tests)
              => (calls' = calls /\ promises' = promises)]_vars
    /\ [](\A c \in CallsTo("sendAttachment") :
             LET p == promises[hist[EventOfCall(c)].arg.idx] IN
             /\ hist[p.by].ev = "artifact"
             /\ ActiveBefore(hist[p.by].arg.test, p.by))

\* An artifact with a readable path arrived before its test was ready and
\* another after its result; the run then ended and was closed with no
\* upload scheduled and no call made for either.
C13_Witness ==
    /\ \E a, b \in 1..Len(hist) :
           /\ hist[a].ev = "artifact" /\ hist[b].ev = "artifact"
           /\ Truthy(hist[a].arg.artifact.path)
           /\ ~ActiveBefore(hist[a].arg.test, a)
           /\ ~ActiveBefore(hist[b].arg.test, b)
           /\ \E r \in a..b : hist[r].ev = "result"
           /\ CallsOf(a) = {} /\ CallsOf(b) = {}
    /\ promises = <<>>
    /\ CallsTo("finishTestRun") # {}

\* The uploads scheduled by the k-th entry of hist.
UploadsOf(k) == {i \in 1..Len(promises) : promises[i].by = k}

\* The remote identifier test t had before the k-th entry of hist: the one
\* returned by the latest startTest call made for it.
RemoteIdBefore(t, k) ==
    LET ss == {s \in CallsTo("startTest") :
                  calls[s].task = t /\ s <= hist[k].at}
    IN calls[CHOOSE s \in ss : \A x \in ss : x <= s].ret

\* The artifact event k of an active test made exactly one call, the
\* descriptive log of that test, scheduled exactly one upload, and the
\* upload, once its file read succeeded, sent exactly one attachment, after
\* the log, naming the run, the test and the log; before that, none.
LoggedAndUploaded(k) ==
    LET t == hist[k].arg.test IN
    /\ Cardinality(CallsOf(k)) = 1
    /\ \A l \in CallsOf(k) :
           /\ calls[l].op = "log"
           /\ calls[l].src.kind = "attachment"
           /\ calls[l].test = RemoteIdBefore(t, k)
           /\ Cardinality(UploadsOf(k)) = 1
           /\ \A i \in UploadsOf(k) :
                  LET sent == {c \in CallsTo("sendAttachment") :
                                  calls[c].log = calls[l].ret}
                  IN IF promises[i].state = "fulfilled"
                     THEN /\ Cardinality(sent) = 1
                          /\ \A c \in sent :
                                 /\ c > l
                                 /\ calls[c].run = testRunId
                                 /\ calls[c].test = RemoteIdBefore(t, k)
                                 /\ hist[EventOfCall(c)].arg.idx = i
                     ELSE sent = {}

\* C14: every artifact event whose test is in the active map emits exactly
\* one descriptive log for that test and schedules exactly one upload; when
\* the upload's file read succeeds, sendAttachment is called exactly once,
\* after the log, with the run, the test's remote id and the log's id.
C14_ArtifactLoggedAndUploaded ==
    \A k \in 1..Len(hist) :
        (hist[k].ev = "artifact" /\ ActiveBefore(hist[k].arg.test, k))
            => LoggedAndUploaded(k)

\* The same for the artifacts that carry a path: these are logged once and
\* uploaded once.
C14_OnArtifactsWithPath ==
    \A k \in 1..Len(hist) :
        (/\ hist[k].ev = "artifact"
         /\ ActiveBefore(hist[k].arg.test, k)
         /\ Truthy(hist[k].arg.artifact.path))
            => LoggedAndUploaded(k)

\* An artifact of an active test without a path: it got its descriptive
\* log, and no upload was scheduled for it.
C14_ArtifactWithoutPath ==
    \E k \in 1..Len(hist) :
        /\ hist[k].ev = "artifact"
        /\ ActiveBefore(hist[k].arg.test, k)
        /\ ~Truthy(hist[k].arg.artifact.path)
        /\ \E l \in CallsOf(k) : calls[l].src.kind = "attachment"
        /\ UploadsOf(k) = {}

\* The uploads scheduled by artifact events delivered while activation j
\* was suspended waiting for an earlier upload: after its run-ended event,
\* before its resumption (the k-th entry of hist), and before one of the
\* uploads it waits for had settled.
ScheduledWhileWaiting(j, k) ==
    {i \in 1..Len(promises) :
        /\ runEnds[j].by < promises[i].by
        /\ promises[i].by < k
        /\ \E e \in 1..runEnds[j].n :
               \A u \in SettledBefore(e, k) : u > promises[i].by}

\* C23: an upload scheduled while onTestRunEnd is suspended waiting for
\* earlier uploads is waited for as well: when the activation closes the
\* run, every such upload has settled, so none of them sends its attachment
\* after the finishTestRun call.
C23_LateUploadsAwaited ==
    \A j \in 1..Len(runEnds) : \A c \in ClosedBy(j) :
        LET k == EventOfCall(c) IN
        \A i \in ScheduledWhileWaiting(j, k) :
            /\ SettledBefore(i, k) # {}
            /\ \A s \in CallsTo("sendAttachment") :
                   hist[EventOfCall(s)].arg.idx = i => s < c

\* An upload scheduled during the wait sent its attachment after the
\* activation had closed the run.
C23_SentAfterClose ==
    \E j \in 1..Len(runEnds) : \E c \in ClosedBy(j) :
        \E i \in ScheduledWhileWaiting(j, EventOfCall(c)) :
            \E s \in CallsTo("sendAttachment") :
                hist[EventOfCall(s)].arg.idx = i /\ s > c

(***************************************************************************)
(* SpecResult: results of every kind of state                              *)
(***************************************************************************)

\* Events delivered in a behaviour of SpecResult.
MaxResultEvents == 3

\* The states a result may carry: the four of the runner, one it does not
\* know, two property names of Object.prototype, and none ("").
ResultStates ==
    OwnStatusKeys \cup {"todo"} \cup InheritedKeys \cup {""}

\* test.result() may also return nothing.
ResultInputs ==
    {ResultOf(st, <<>>) : st \in ResultStates}
        \cup {ResultOf("failed", <<ErrorA>>), None}

NextResult ==
    \/ Budget(MaxResultEvents) /\ onTestCaseReady(TestT1)
    \/ \E r \in ResultInputs :
           Budget(MaxResultEvents) /\ onTestCaseResult(TestT1, r)

SpecResult == Init /\ [][NextResult]_vars

\* The status the claim gives each runner state.
ClaimedStatus(state) ==
    CASE state = "passed" -> "PASSED"
      [] state = "failed" -> "FAILED"
      [] state = "skipped" -> "SKIPPED"
      [] state = "pending" -> "SKIPPED"

\* The finishTest calls made by the k-th entry of hist.
FinishesOf(k) == CallsOf(k) \cap CallsTo("finishTest")

\* C5: a test-case-result event whose state is passed, failed, skipped or
\* pending makes exactly one finishTest call, with status PASSED, FAILED,
\* SKIPPED, SKIPPED respectively; an event with any other state, with no
\* state or with no result makes no finishTest call.  (Events of tests with
\* a suite path, whose handler does not raise.)
C5_StatusMapping ==
    \A k \in 1..Len(hist) :
        (hist[k].ev = "result"
            /\ buildSuitePath(TestById(hist[k].arg.test)) # <<>>)
        => LET r == hist[k].arg.result IN
           IF r # None /\ r.state \in OwnStatusKeys
           THEN /\ Cardinality(FinishesOf(k)) = 1
                /\ \A f \in FinishesOf(k) :
                       calls[f].status = ClaimedStatus(r.state)
           ELSE FinishesOf(k) = {}

\* The same with the states that name a property of Object.prototype left
\* out: on all other states the mapping is as claimed.
C5_OnStatesNotInherited ==
    \A k \in 1..Len(hist) :
        (hist[k].ev = "result"
            /\ buildSuitePath(TestById(hist[k].arg.test)) # <<>>
            /\ (hist[k].arg.result = None
                   \/ hist[k].arg.result.state \notin InheritedKeys))
        => LET r == hist[k].arg.result IN
           IF r # None /\ r.state \in OwnStatusKeys
           THEN /\ Cardinality(FinishesOf(k)) = 1
                /\ \A f \in FinishesOf(k) :
                       calls[f].status = ClaimedStatus(r.state)
           ELSE FinishesOf(k) = {}

\* The finishTest calls made for the remote test that the s-th call started.
FinishesFor(s) ==
    {f \in CallsTo("finishTest") : f > s /\ calls[f].test = calls[s].ret}

\* C30: every remote test that has been started is still in the active map
\* or has been finished remotely, so an identifier leaves the active map
\* only after the finishTest call for its remote test.
C30_StartedIsActiveOrFinished ==
    \A s \in CallsTo("startTest") :
        \/ /\ MapHas(tests, calls[s].task)
           /\ tests[calls[s].task] = calls[s].ret
        \/ FinishesFor(s) # {}

\* What holds instead: a started test that is neither active nor finished
\* was removed by a result event whose result had no mapped status (no
\* result, no state, or a state testStatusMap does not know).
C30_UnfinishedOnlyWithoutStatus ==
    \A s \in CallsTo("startTest") :
        \/ /\ MapHas(tests, calls[s].task)
           /\ tests[calls[s].task] = calls[s].ret
        \/ FinishesFor(s) # {}
        \/ \E k \in EventOfCall(s)..Len(hist) :
               /\ hist[k].ev = "result"
               /\ hist[k].arg.test = calls[s].task
               /\ ResultStatus(hist[k].arg.result) = "undefined"

\* A test was started, its result came without a state, and it is gone from
\* the active map without a finishTest call.
C30_RemovedUnfinished ==
    \E s \in CallsTo("startTest") :
        /\ ~MapHas(tests, calls[s].task)
        /\ FinishesFor(s) = {}
        /\ hist[Len(hist)].ev = "result"
        /\ hist[Len(hist)].arg.result # None
        /\ hist[Len(hist)].arg.result.state = ""

(***************************************************************************)
(* SpecCoverage: coverage reporting at the end of the run, with remote     *)
(* calls that fail                                                         *)
(***************************************************************************)

\* Events delivered in a behaviour of SpecCoverage.
MaxCoverageEvents == 4

NextCoverage ==
    \/ Budget(MaxCoverageEvents) /\ onTestRunStart
    \/ Budget(MaxCoverageEvents) /\ onTestCaseReady(TestT1)
    \/ \E c \in CoverageInputs : Budget(MaxCoverageEvents) /\ onCoverage(c)
    \/ Budget(MaxCoverageEvents) /\ onTestRunEnd
    \/ \E j \in 1..Len(runEnds), f \in CoverageFailures :
           RunEndResumesWith(j, f)

SpecCoverage == Init /\ [][NextCoverage]_vars

\* The activation whose resumption is the k-th entry of hist.
ActivationOf(k) == runEnds[hist[k].arg]

\* C11: when a remote call of the coverage reporting fails (the start of
\* the Coverage suite, the start of the synthetic test, the coverage log or
\* the finish of the synthetic test), the onTestRunEnd that made it still
\* calls finishTestRun exactly once, as its last call, does not fail
\* itself, and the coverage snapshot is cleared.
C11_CoverageFailureCaught ==
    [][(/\ Len(hist') > Len(hist)
        /\ Last(hist').ev = "resume"
        /\ runEnds'[Last(hist').arg].failed # "none")
           => /\ ~Last(hist').raised
              /\ runEnds'[Last(hist').arg].pc = "done"
              /\ Cardinality({i \in 1..Len(NewCalls) :
                                 NewCalls[i].op = "finishTestRun"}) = 1
              /\ Last(NewCalls).op = "finishTestRun"
              /\ coverage' = None
      ]_vars

\* The coverage log failed after the synthetic test had been started: the
\* activation made the startTest, no log and no finishTest, and then
\* finishTestRun.
C11_Witness ==
    /\ Len(hist) > 0
    /\ Last(hist).ev = "resume"
    /\ ActivationOf(Len(hist)).failed = "log"
    /\ \E s \in CallsOf(Len(hist)) : calls[s].op = "startTest"
    /\ \A c \in CallsOf(Len(hist)) : calls[c].op \notin {"log", "finishTest"}
    /\ calls[Len(calls)].op = "finishTestRun"

(***************************************************************************)
(* SpecPath: tests with and without a suite path                           *)
(***************************************************************************)

\* Events delivered in a behaviour of SpecPath.
MaxPathEvents == 4

PathTests == {TestT0, TestBlank, TestT2}

PathResults == {ResultOf("passed", <<>>), ResultOf("failed", <<ErrorA>>)}

PathLogs ==
    {[taskId |-> "t0", type |-> "stdout", markdown |-> FALSE, n |-> 0],
     [taskId |-> "tb", type |-> "stderr", markdown |-> FALSE, n |-> 0]}

NextPath ==
    \/ \E t \in PathTests : Budget(MaxPathEvents) /\ onTestCaseReady(t)
    \/ \E t \in PathTests, r \in PathResults :
           Budget(MaxPathEvents) /\ onTestCaseResult(t, r)
    \/ \E l \in PathLogs :
           /\ Budget(MaxPathEvents)
           /\ onUserConsoleLog([l EXCEPT !.n = Len(hist) + 1])

SpecPath == Init /\ [][NextPath]_vars

\* C16: when the suite path of a test has no segment, the test-ready or
\* test-result event raises: it makes no remote call (no startSuite,
\* startTest, log or finishTest), the test is not added to the active map,
\* and the logs buffered for it stay buffered.
C16_EmptyPathRaises ==
    [][(/\ Len(hist') > Len(hist)
        /\ Last(hist').ev \in {"ready", "result"}
        /\ buildSuitePath(TestById(IF Last(hist').ev = "ready"
                                   THEN Last(hist').arg
                                   ELSE Last(hist').arg.test)) = <<>>)
           => /\ Last(hist').raised
              /\ calls' = calls
              /\ suites' = suites
              /\ tests' = tests
              /\ bufferedLogs' = bufferedLogs
      ]_vars

\* A log was buffered for a test without a suite path, then its ready event
\* and its failed result both raised; the log is still buffered and no
\* remote call was made.
C16_Witness ==
    /\ Len(hist) >= 3
    /\ Last(hist).ev = "result" /\ Last(hist).raised
    /\ Len(Last(hist).arg.result.errors) > 0
    /\ hist[Len(hist) - 1].ev = "ready" /\ hist[Len(hist) - 1].raised
    /\ hist[Len(hist) - 1].arg = Last(hist).arg.test
    /\ MapHas(bufferedLogs, Last(hist).arg.test)
    /\ bufferedLogs[Last(hist).arg.test] # <<>>
    /\ Last(hist).arg.test \notin DOMAIN tests
    /\ calls = <<>>

(***************************************************************************)
(* SpecType: tests of many display names                                   *)
(***************************************************************************)

\* Events delivered in a behaviour of SpecType.
MaxTypeEvents == 2

\* The upper-case form of the letters of the keywords.
UpperChar(c) ==
    CASE c = "a" -> "A" [] c = "b" -> "B" [] c = "c" -> "C" [] c = "d" -> "D"
      [] c = "e" -> "E" [] c = "f" -> "F" [] c = "h" -> "H" [] c = "l" -> "L"
      [] c = "n" -> "N" [] c = "o" -> "O" [] c = "p" -> "P" [] c = "r" -> "R"
      [] c = "s" -> "S" [] c = "t" -> "T" [] c = "u" -> "U" [] c = "w" -> "W"
      [] OTHER -> c

ToUpperCase(s) == [i \in 1..Len(s) |-> UpperChar(s[i])]

\* The display names delivered: every keyword inside a longer name, every
\* keyword in capitals, names that hold a keyword of each kind in either
\* order and in mixed case, and names that hold no keyword.
TypeNames ==
    {<<"x", " ">> \o k \o <<" ", "y">> : k \in BeforeKeywords \cup AfterKeywords}
    \cup {ToUpperCase(k) : k \in BeforeKeywords \cup AfterKeywords}
    \cup {ToUpperCase(a) \o <<" ">> \o b :
             a \in {<<"a","f","t","e","r","a","l","l">>,
                    <<"t","e","a","r","d","o","w","n">>},
             b \in {<<"s","e","t","u","p">>,
                    <<"b","e","f","o","r","e"," ","e","a","c","h">>}}
    \cup {b \o <<" ">> \o ToUpperCase(a) :
             a \in {<<"a","f","t","e","r","a","l","l">>,
                    <<"t","e","a","r","d","o","w","n">>},
             b \in {<<"s","e","t","u","p">>,
                    <<"b","e","f","o","r","e"," ","e","a","c","h">>}}
    \cup {<<"b","e","f","o","r","e">>, <<"s","e","t"," ","u","p">>,
          <<"a","f","t","e","r">>, <<"t","e","s","t">>, <<>>}

\* A test of describe('o') with the given display name.
NamedTest(name) ==
    [id |-> "tn", name |-> name, module |-> ModuleM,
     chain |-> << <<"o">>, Undef >>, location |-> None]

NextType ==
    \/ \E n \in TypeNames : Budget(MaxTypeEvents) /\ onTestCaseReady(NamedTest(n))
    \/ \E n \in TypeNames :
           /\ Budget(MaxTypeEvents)
           /\ onTestCaseResult(NamedTest(n), ResultOf("passed", <<>>))

SpecType == Init /\ [][NextType]_vars

\* Name s contains keyword k, letters compared without regard to case.
ContainsIgnoringCase(s, k) ==
    \E i \in 1..(Len(s) + 1) :
        /\ i + Len(k) - 1 <= Len(s)
        /\ \A j \in 1..Len(k) :
               s[i + j - 1] = k[j] \/ s[i + j - 1] = UpperChar(k[j])

\* The type the claim gives a display name.
ClaimedType(name) ==
    IF \E k \in BeforeKeywords : ContainsIgnoringCase(name, k) THEN "BEFORE"
    ELSE IF \E k \in AfterKeywords : ContainsIgnoringCase(name, k) THEN "AFTER"
    ELSE "TEST"

\* C18: the type of a test is found by case-insensitive substring matching
\* on its display name, BEFORE first: BEFORE when the name contains
\* beforeall, before all, beforeeach, before each or setup, even if it also
\* contains an AFTER keyword; else AFTER when it contains afterall, after
\* all, aftereach, after each or teardown; else TEST.  Every startTest call
\* carries the type of the name it carries.
C18_TestTypeByName ==
    \A s \in CallsTo("startTest") :
        calls[s].type = ClaimedType(calls[s].name)

\* A test was started whose name holds an AFTER keyword in capitals before
\* a BEFORE keyword, as BEFORE; and one whose name holds only an AFTER
\* keyword in capitals, as AFTER.
C18_Witness ==
    /\ \E s \in CallsTo("startTest") :
           /\ \E k \in AfterKeywords :
                  StartsWith(calls[s].name, ToUpperCase(k) \o <<" ">>)
           /\ \E k \in BeforeKeywords : Includes(calls[s].name, k)
           /\ calls[s].type = "BEFORE"
    /\ \E s \in CallsTo("startTest") :
           /\ calls[s].name \in {ToUpperCase(k) : k \in AfterKeywords}
           /\ calls[s].type = "AFTER"

(***************************************************************************)
(* SpecTable: the coverage table of every kind of coverage object          *)
(***************************************************************************)

\* Events delivered in a behaviour of SpecTable, the coverage event
\* included.
MaxTableEvents == 3

\* What files() returns.
FileLists ==
    {<<>>, <<FileA>>, <<FileB, FileA>>, <<FileA, FileB>>,
     <<FileX, FileC, FileA>>, <<FileC, FileB, FileX, FileA>>}

\* The coverage objects delivered: every combination of the members the
\* formatter probes, with nothing or one operation throwing.
CoverageObjects ==
    {[filesFn |-> ff, fileCoverageForFn |-> fc, summaryFn |-> sf,
      agg |-> ag, files |-> fl, throws |-> th] :
        ff \in BOOLEAN, fc \in BOOLEAN, sf \in BOOLEAN, ag \in BOOLEAN,
        fl \in FileLists, th \in {{}} \cup {{p} : p \in ThrowPoints}}

\* The state after construction and one coverage event.
InitTable ==
    /\ testRunId = NoId
    /\ suites = EmptyMap
    /\ tests = EmptyMap
    /\ promises = <<>>
    /\ bufferedLogs = EmptyMap
    /\ coverage \in CoverageObjects
    /\ calls = <<>>
    /\ runEnds = <<>>
    /\ hist = <<[ev |-> "coverage", arg |-> coverage, at |-> 0,
                 raised |-> FALSE]>>
    /\ clock = 0
    /\ disk = EmptyMap
    /\ waits = <<>>

NextTable ==
    \/ Budget(MaxTableEvents) /\ onTestRunStart
    \/ Budget(MaxTableEvents) /\ onTestRunEnd
    \/ \E j \in 1..Len(runEnds) : RunEndResumes(j)

SpecTable == InitTable /\ [][NextTable]_vars

\* The coverage logs written.
CoverageLogs == {l \in CallsTo("log") : calls[l].src.kind = "coverage"}

\* The object is dispatched to the per-file branch.
IsFileMap(c) == c.filesFn /\ c.fileCoverageForFn

\* The object is dispatched to the aggregate branch.
IsAggregate(c) == ~IsFileMap(c) /\ c.agg

\* C19: the coverage table formatter is total.  Every onTestRunEnd that
\* held a snapshot got a table from it, never an exception, and wrote it as
\* the coverage log: the file table, the JSON table or the placeholder
\* table.  A failure in the per-file branch or in the aggregate branch gives
\* the JSON table of the object, an object recognized as neither gives the
\* JSON table, and when serialization fails as well the table is the
\* placeholder.  Undefined gives the JSON table too.
C19_FormatterTotal ==
    /\ formatCoverageMarkdownTable(None)
           = [raised |-> FALSE, rows |-> JsonTable(None)]
    /\ \A j \in 1..Len(runEnds) :
           /\ runEnds[j].failed # "format"
           /\ runEnds[j].pc = "done" => CoverageLogs # {}
    /\ \A l \in CoverageLogs :
           LET c == calls[l].src.cov
               rows == calls[l].src.table
           IN /\ \/ SubSeq(rows, 1, 2) = FileHeader
                 \/ rows = JsonTable(c)
                 \/ rows = PlaceholderTable
              /\ (IsFileMap(c) /\ "files" \in c.throws) => rows = JsonTable(c)
              /\ (IsAggregate(c) /\ "toFixed" \in c.throws) => rows = JsonTable(c)
              /\ (~IsFileMap(c) /\ ~IsAggregate(c) /\ c.throws = {})
                     => rows = JsonTable(c)
              /\ (~IsFileMap(c) /\ ~IsAggregate(c) /\ "stringify" \in c.throws)
                     => rows = PlaceholderTable
              /\ "get" \in c.throws => rows = PlaceholderTable
              /\ rows = PlaceholderTable
                     => c.throws \cap {"get", "stringify"} # {}

\* The run ended with a snapshot whose property reads throw: the coverage
\* log was written with the placeholder table and the run was closed.
C19_Witness ==
    /\ \E l \in CoverageLogs :
           /\ "get" \in calls[l].src.cov.throws
           /\ calls[l].src.table = PlaceholderTable
    /\ CallsTo("finishTestRun") # {}

\* The paths of a list ascend.
Ascending(s) == \A i, j \in 1..Len(s) : i < j => StringLess(s[i], s[j])

\* The list of the same files as fl (which are distinct) in ascending order.
AscendingOrderOf(fl) ==
    CHOOSE s \in [1..Len(fl) -> {fl[i] : i \in 1..Len(fl)}] :
        /\ {s[i] : i \in 1..Len(fl)} = {fl[i] : i \in 1..Len(fl)}
        /\ Ascending(s)

\* The object is a per-file map with its aggregate summary, or an
\* aggregate-only summary, and none of its operations throws.
WellFormed(c) ==
    /\ c.throws = {}
    /\ (IsFileMap(c) /\ c.summaryFn) \/ IsAggregate(c)

\* C20: the table of a per-file coverage map with n files is the two header
\* lines, one `All files` row, then exactly n file rows, which show the
\* files in ascending order of their paths whatever the order of
\* enumeration; the table of an aggregate-only summary is the two header
\* lines and one data row.
C20_TableRows ==
    \A l \in CoverageLogs :
        LET c == calls[l].src.cov
            rows == calls[l].src.table
            n == Len(c.files)
        IN WellFormed(c) =>
             /\ SubSeq(rows, 1, 2) = FileHeader
             /\ rows[3] = AllFilesRow
             /\ IF IsFileMap(c)
                THEN /\ Len(rows) = n + 3
                     /\ \A i \in 1..n :
                            rows[i + 3] = FileRow(AscendingOrderOf(c.files)[i])
                ELSE Len(rows) = 3

\* A table was written for a map that enumerates four files out of order,
\* and one for an aggregate-only summary.
C20_Witness ==
    \E l \in CoverageLogs :
        LET c == calls[l].src.cov IN
        /\ WellFormed(c)
        /\ \/ /\ IsFileMap(c)
              /\ Len(c.files) = 4
              /\ ~Ascending(c.files)
              /\ Len(calls[l].src.table) = 7
           \/ /\ IsAggregate(c)
              /\ c.files # <<>>

(***************************************************************************)
(* SpecRunEnd: a run with uploads and coverage, ended one or more times    *)
(***************************************************************************)

\* Events delivered in a behaviour of SpecRunEnd.
MaxRunEndEvents == 5

\* An artifact with a path, hence an upload.
ScreenShot ==
    [path |-> <<"d", "/", "s", ".", "p", "n", "g">>, fileName |-> Undef,
     contentType |-> "image/png"]

NextRunEnd ==
    \/ Budget(MaxRunEndEvents) /\ onTestRunStart
    \/ Budget(MaxRunEndEvents) /\ onTestCaseReady(TestT2)
    \/ Budget(MaxRunEndEvents) /\ onTestCaseArtifactRecord(TestT2, ScreenShot)
    \/ Budget(MaxRunEndEvents) /\ onCoverage(CoverageMap(<<FileA>>))
    \/ Budget(MaxRunEndEvents) /\ onTestRunEnd
    \/ \E i \in 1..Len(promises) : UploadSucceeds(i)
    \/ \E i \in 1..Len(promises) : UploadFails(i)
    \/ \E j \in 1..Len(runEnds) : RunEndResumes(j)

SpecRunEnd == Init /\ [][NextRunEnd]_vars

\* The calls of coverage reporting: the start of the Coverage suite, and
\* the start, the log and the finish of a synthetic test.
CoverageCalls ==
    LET synthetic == {calls[s].ret : s \in {x \in CallsTo("startTest") :
                                               calls[x].task = NoTask}}
    IN {c \in 1..Len(calls) :
           \/ calls[c].op = "startSuite" /\ calls[c].name = <<"Coverage">>
           \/ calls[c].op = "startTest" /\ calls[c].task = NoTask
           \/ calls[c].op \in {"log", "finishTest"} /\ calls[c].test \in synthetic}

\* The operations of the calls made by the k-th entry of hist, in order.
OpsOf(k) ==
    [i \in 1..Cardinality(CallsOf(k)) |-> calls[hist[k].at + i].op]

\* The calls of a completed resumption are in the fixed order: with a
\* snapshot, the Coverage suite if it is new, the synthetic test, its one
\* log, its finish with PASSED, then finishTestRun; without, finishTestRun
\* alone.
StepsInOrder(k) ==
    LET ops == OpsOf(k)
        first == hist[k].at + 1
    IN \/ ops = <<"finishTestRun">>
       \/ /\ ops \in {<<"startSuite", "startTest", "log", "finishTest",
                        "finishTestRun">>,
                      <<"startTest", "log", "finishTest", "finishTestRun">>}
          /\ \A c \in CallsOf(k) :
                 calls[c].op = "finishTestRun" \/ c \in CoverageCalls
          /\ \A c \in CallsOf(k) :
                 calls[c].op = "finishTest" => calls[c].status = "PASSED"

\* C24: run-ended performs its steps in a fixed order.  When an activation
\* runs on, every upload pending by then has completed; it makes the
\* coverage calls in their order and then finishTestRun; coverage calls are
\* made by no other step, and none is made for a run after the finishTestRun
\* call that closed it.
C24_RunEndOrder ==
    /\ \A k \in 1..Len(hist) :
           (hist[k].ev = "resume" /\ ~hist[k].raised) =>
               /\ StepsInOrder(k)
               /\ \A i \in 1..Len(promises) :
                      promises[i].by < k => SettledBefore(i, k) # {}
    /\ \A c \in CoverageCalls :
           /\ hist[EventOfCall(c)].ev = "resume"
           /\ \A f \in CallsTo("finishTestRun") :
                  calls[f].run = calls[c].run => c < f

\* What holds instead: the order of the calls within every activation, the
\* completion of the uploads scheduled before its run-ended event, and
\* coverage calls only in resumptions, before the finishTestRun call of the
\* same resumption.
C24_OrderWithinActivation ==
    /\ \A k \in 1..Len(hist) :
           (hist[k].ev = "resume" /\ ~hist[k].raised) =>
               /\ StepsInOrder(k)
               /\ \A i \in ScheduledBefore(hist[k].arg) : SettledBefore(i, k) # {}
    /\ \A c \in CoverageCalls :
           /\ hist[EventOfCall(c)].ev = "resume"
           /\ \E f \in CallsOf(EventOfCall(c)) :
                  calls[f].op = "finishTestRun" /\ c < f

\* An activation waited for an upload, then reported coverage and closed
\* the run, in this order.
C24_ReportedAfterUpload ==
    \E k \in 1..Len(hist) :
        /\ hist[k].ev = "resume"
        /\ OpsOf(k) = <<"startSuite", "startTest", "log", "finishTest",
                        "finishTestRun">>
        /\ \E i \in ScheduledBefore(hist[k].arg) :
               \E u \in SettledBefore(i, k) : u > runEnds[hist[k].arg].by

(***************************************************************************)
(* Further claims checked under Spec                                       *)
(***************************************************************************)

\* C25: the parent of every suite is the suite of its prefix.  A startSuite
\* call made for segment i of the suite path of a test (the segment whose
\* prefix key the call's result is memoized under) carries no parent when
\* i = 1, and otherwise the identifier memoized for the first i - 1
\* segments; the startSuite call of the Coverage suite carries no parent.
C25_ParentIsPrefixSuite ==
    [][Len(hist') > Len(hist) =>
          \A p \in 1..Len(NewCalls) :
              NewCalls[p].op = "startSuite" =>
                  IF Last(hist').ev = "resume"
                  THEN NewCalls[p].parent = NoId
                  ELSE LET path == buildSuitePath(TestById(
                                       IF Last(hist').ev = "ready"
                                       THEN Last(hist').arg
                                       ELSE Last(hist').arg.test))
                       IN \E i \in 1..Len(path) :
                              LET key == Join(SubSeq(path, 1, i))
                                  prefix == Join(SubSeq(path, 1, i - 1))
                              IN /\ NewCalls[p].name = path[i]
                                 /\ ~MapHas(suites, key)
                                 /\ MapHas(suites', key)
                                 /\ suites'[key] = NewCalls[p].ret
                                 /\ IF i = 1
                                    THEN NewCalls[p].parent = NoId
                                    ELSE /\ MapHas(suites', prefix)
                                         /\ NewCalls[p].parent = suites'[prefix]
      ]_vars

\* A test event created a suite below a suite that an earlier event had
\* memoized, and a suite without a parent exists.
C25_Witness ==
    \E c \in CallsTo("startSuite") :
        /\ calls[c].parent # NoId
        /\ EventOfCall(calls[c].parent) < EventOfCall(c)
        /\ \E d \in CallsTo("startSuite") : calls[d].parent = NoId

\* The calls that are made for a run.
RunCalls ==
    {c \in 1..Len(calls) :
        calls[c].op \in {"startSuite", "startTest", "log", "finishTest",
                         "sendAttachment"}}

\* C32: every startSuite, startTest, log, finishTest and sendAttachment
\* call is made while a run is open and carries its identifier: the call's
\* run identifier is set, it was returned by an earlier startTestRun call,
\* and no finishTestRun call for it came before.
C32_CallsCarryOpenRun ==
    \A c \in RunCalls :
        /\ calls[c].run # NoId
        /\ \E s \in CallsTo("startTestRun") :
               s < c /\ calls[s].ret = calls[c].run
        /\ \A f \in CallsTo("finishTestRun") :
               calls[f].run = calls[c].run => c < f

\* What holds instead: a call made once a run-started event has been
\* handled carries the identifier of the run that event opened; a call made
\* before carries none.
C32_RunIdAfterRunStart ==
    \A c \in RunCalls :
        IF \E s \in CallsTo("startTestRun") : s < c
        THEN \E s \in CallsTo("startTestRun") :
                 s < c /\ calls[s].ret = calls[c].run /\ calls[c].run # NoId
        ELSE calls[c].run = NoId

\* A test was started before any run-started event: its startSuite and
\* startTest calls carry no run identifier, and the run was opened later.
C32_StartedWithoutRun ==
    /\ testRunId # NoId
    /\ \E a \in CallsTo("startSuite"), b \in CallsTo("startTest") :
           calls[a].run = NoId /\ calls[b].run = NoId

(***************************************************************************)
(* SpecErrors: failed results of tests with and without a readable         *)
(* location                                                                *)
(***************************************************************************)

\* Events delivered in a behaviour of SpecErrors.
MaxErrorEvents == 3

ErrorTests == {TestT1, TestT2, TestUnreadable, TestBeyond}

ErrorResults ==
    {ResultOf("passed", <<>>), ResultOf("failed", <<ErrorA, ErrorB>>),
     ResultOf("failed", <<ErrorB, ErrorA, ErrorA>>)}

NextErrors ==
    \/ \E t \in ErrorTests : Budget(MaxErrorEvents) /\ onTestCaseReady(t)
    \/ \E t \in ErrorTests, r \in ErrorResults :
           Budget(MaxErrorEvents) /\ onTestCaseResult(t, r)

SpecErrors == Init /\ [][NextErrors]_vars

\* The positions in NewCalls of the logs of the error loop.
ErrorLogs ==
    {p \in 1..Len(NewCalls) :
        /\ NewCalls[p].op = "log"
        /\ NewCalls[p].src.kind \in {"message", "stack", "snippet"}}

\* The logs of one kind made for the k-th error.
ErrorLogsOf(kind, k) ==
    {p \in ErrorLogs : NewCalls[p].src.kind = kind /\ NewCalls[p].src.error = k}

KindRank(kind) ==
    CASE kind = "message" -> 1 [] kind = "stack" -> 2 [] kind = "snippet" -> 3

\* The file and the line of the test are known and the snippet can be
\* extracted.
SnippetAvailable(test) ==
    /\ test.location # None
    /\ Truthy(LocationFile(test))
    /\ ~getCodeSnippet(LocationFile(test), test.location.line).raised

\* Extracting the snippet of the test is attempted and fails.
SnippetFails(test) ==
    /\ test.location # None
    /\ Truthy(LocationFile(test))
    /\ getCodeSnippet(LocationFile(test), test.location.line).raised

\* C26: a result with errors e1..en logs, for each error in the reported
\* order, its message, then its stack (only if it has one), then the code
\* snippet (only if file and line are known and the extraction succeeds);
\* all these logs go to the test of the result and precede its finishTest.
C26_ErrorLogsInOrder ==
    [][(/\ Len(hist') > Len(hist)
        /\ Last(hist').ev = "result"
        /\ ~Last(hist').raised
        /\ Last(hist').arg.result # None
        /\ Len(Last(hist').arg.result.errors) > 0)
           => LET test == TestById(Last(hist').arg.test)
                  errors == Last(hist').arg.result.errors
              IN /\ \A p \in ErrorLogs : NewCalls[p].src.error \in 1..Len(errors)
                 /\ \A k \in 1..Len(errors) :
                        /\ Cardinality(ErrorLogsOf("message", k)) = 1
                        /\ Cardinality(ErrorLogsOf("stack", k)) =
                               (IF Truthy(errors[k].stack) THEN 1 ELSE 0)
                        /\ Cardinality(ErrorLogsOf("snippet", k)) =
                               (IF SnippetAvailable(test) THEN 1 ELSE 0)
                 /\ \A p, q \in ErrorLogs :
                        p < q =>
                            \/ NewCalls[p].src.error < NewCalls[q].src.error
                            \/ /\ NewCalls[p].src.error = NewCalls[q].src.error
                               /\ KindRank(NewCalls[p].src.kind)
                                      < KindRank(NewCalls[q].src.kind)
                 /\ \A q \in 1..Len(NewCalls) :
                        NewCalls[q].op = "finishTest" =>
                            /\ q = Len(NewCalls)
                            /\ \A p \in ErrorLogs :
                                   /\ p < q
                                   /\ NewCalls[p].test = NewCalls[q].test
      ]_vars

\* The result of a located test with three errors, the second and third
\* with a stack, was logged: three snippet logs, two stack logs, and then
\* the finishTest call.
C26_Witness ==
    /\ Len(hist) > 0
    /\ Last(hist).ev = "result"
    /\ Last(hist).arg.test = "t1"
    /\ Len(Last(hist).arg.result.errors) = 3
    /\ Cardinality({c \in CallsOf(Len(hist)) :
                       calls[c].op = "log" /\ calls[c].src.kind = "snippet"}) = 3
    /\ Cardinality({c \in CallsOf(Len(hist)) :
                       calls[c].op = "log" /\ calls[c].src.kind = "stack"}) = 2
    /\ calls[Len(calls)].op = "finishTest"

\* C27: a failing snippet extraction omits only the snippet log.  When the
\* test of a result with errors has a known file and line and the extraction
\* fails, the result call does not raise, no snippet log is made, every
\* error still gets its message log and (if it has a stack) its stack log,
\* the finishTest call is made last with the mapped status, and the test is
\* removed from the active map.
C27_SnippetFailureIsLocal ==
    [][(/\ Len(hist') > Len(hist)
        /\ Last(hist').ev = "result"
        /\ Last(hist').arg.result # None
        /\ Len(Last(hist').arg.result.errors) > 0
        /\ SnippetFails(TestById(Last(hist').arg.test)))
           => LET errors == Last(hist').arg.result.errors IN
              /\ ~Last(hist').raised
              /\ \A p \in ErrorLogs : NewCalls[p].src.kind # "snippet"
              /\ \A k \in 1..Len(errors) :
                     /\ ErrorLogsOf("message", k) # {}
                     /\ Truthy(errors[k].stack) => ErrorLogsOf("stack", k) # {}
              /\ Len(NewCalls) > 0
              /\ Last(NewCalls).op = "finishTest"
              /\ Last(NewCalls).status =
                     testStatusMap(Last(hist').arg.result.state)
              /\ Last(hist').arg.test \notin DOMAIN tests'
      ]_vars

\* A test located beyond the end of its file and a test located in an
\* unreadable file both got failed results with errors, and both were
\* finished.
C27_Witness ==
    /\ \E k \in 1..Len(hist) :
           /\ hist[k].ev = "result" /\ hist[k].arg.test = "tu"
           /\ Len(hist[k].arg.result.errors) > 0
           /\ \E c \in CallsOf(k) : calls[c].op = "finishTest"
    /\ Len(hist) > 0
    /\ Last(hist).ev = "result" /\ Last(hist).arg.test = "ty"
    /\ Len(Last(hist).arg.result.errors) > 0
    /\ calls[Len(calls)].op = "finishTest"
    /\ "ty" \notin DOMAIN tests

(***************************************************************************)
(* SpecWait: the upload of an artifact whose file is written, rewritten    *)
(* and removed while getBytes waits for it                                 *)
(***************************************************************************)

\* Events delivered in a behaviour of SpecWait.
MaxWaitEvents == 2

\* The sizes a written file can have.
MaxSize == 2

\* How many intervals later than asked a timer may fire.
MaxLate == 1

\* Time passes while some call of waitForFile sleeps.
Tick ==
    /\ \E i \in 1..Len(waits) :
           /\ waits[i].pc = "sleep"
           /\ clock < waits[i].wake + MaxLate * Interval
    /\ clock' = clock + Interval
    /\ UNCHANGED <<reporterVars, disk, waits>>

\* Some process writes the file: it exists, with a new modification time.
FileWritten(path, size) ==
    /\ disk' = MapSet(disk, path, [mtimeMs |-> clock, size |-> size])
    /\ UNCHANGED <<reporterVars, clock, waits>>

\* Some process removes the file.
FileRemoved(path) ==
    /\ MapHas(disk, path)
    /\ disk' = MapDelete(disk, path)
    /\ UNCHANGED <<reporterVars, clock, waits>>

NextWait ==
    \/ Budget(MaxWaitEvents) /\ onTestCaseReady(TestT2)
    \/ Budget(MaxWaitEvents) /\ onTestCaseArtifactRecord(TestT2, ScreenShot)
    \/ \E size \in 1..MaxSize : FileWritten(ScreenShot.path, size)
    \/ FileRemoved(ScreenShot.path)
    \/ Tick
    \/ \E i \in 1..Len(waits) : FileExistsSettles(i)
    \/ \E i \in 1..Len(waits) : StatSettles(i)
    \/ \E i \in 1..Len(waits) : TimerFires(i)
    \/ \E i \in 1..Len(waits) : GetBytesReturns(i)
    \/ \E i \in 1..Len(waits) : GetBytesThrows(i)

SpecWait == Init /\ [][NextWait]_vars

\* Timers fire, the file system answers and getBytes goes on.
SpecWaitFair ==
    /\ SpecWait
    /\ WF_vars(Tick)
    /\ \A i \in 1..MaxWaitEvents :
           /\ WF_vars(FileExistsSettles(i))
           /\ WF_vars(StatSettles(i))
           /\ WF_vars(TimerFires(i))
           /\ WF_vars(GetBytesReturns(i) \/ GetBytesThrows(i))

\* C29: waiting for an artifact file ends in one of two ways.  It returns
\* only after two stat samples taken one interval apart agree on
\* modification time and size; otherwise it fails with the timeout error,
\* once the elapsed time exceeds the timeout; and an upload is rejected
\* exactly when its getBytes failed.
C29_WaitOutcome ==
    \A i \in 1..Len(waits) :
        /\ waits[i].pc = "returned" =>
               /\ Len(waits[i].stats) = 2
               /\ SamplesAgree(waits[i].stats)
               /\ waits[i].stats[2].at - waits[i].stats[1].at >= Interval
        /\ waits[i].pc = "threw" =>
               /\ waits[i].error = "timeout"
               /\ waits[i].at - waits[i].start > Timeout
        /\ promises[i].state = "rejected" =>
               waits[i].pc \in {"threw", "returned"}
        /\ promises[i].state = "fulfilled" => waits[i].pc = "returned"

\* What holds instead: a failure of waitForFile is the timeout error, after
\* more than the timeout, or the error of stat on a file that has been
\* removed since fileExists found it.
C29_WaitOutcomeOrStatError ==
    \A i \in 1..Len(waits) :
        /\ waits[i].pc = "returned" =>
               /\ Len(waits[i].stats) = 2
               /\ SamplesAgree(waits[i].stats)
               /\ waits[i].stats[2].at - waits[i].stats[1].at >= Interval
        /\ waits[i].pc = "threw" =>
               \/ /\ waits[i].error = "timeout"
                  /\ waits[i].at - waits[i].start > Timeout
               \/ /\ waits[i].error = "stat"
                  /\ waits[i].stats = <<>> \/ Len(waits[i].stats) = 1
        /\ promises[i].state = "rejected" =>
               waits[i].pc \in {"threw", "returned"}
        /\ promises[i].state = "fulfilled" => waits[i].pc = "returned"

\* Every wait ends and every upload settles.
C29_WaitTerminates ==
    \A i \in 1..MaxWaitEvents :
        (i <= Len(waits)) ~> (i <= Len(promises) /\ promises[i].state # "pending")

\* A wait timed out and its upload was rejected.
C29_TimedOut ==
    \E i \in 1..Len(waits) :
        /\ waits[i].pc = "threw" /\ waits[i].error = "timeout"
        /\ promises[i].state = "rejected"

\* A wait returned on two agreeing samples of a file that was rewritten
\* during an earlier pass, and the upload was sent.
C29_ReturnedStable ==
    \E i \in 1..Len(waits) :
        /\ waits[i].pc = "returned"
        /\ waits[i].stats[1].mtimeMs > waits[i].start
        /\ promises[i].state = "fulfilled"

(***************************************************************************)
(* SpecClose: console logs around the result of a test, up to the end of   *)
(* the run                                                                 *)
(***************************************************************************)

\* Events delivered in a behaviour of SpecClose.
MaxCloseEvents == 5

CloseLog == [taskId |-> "t2", type |-> "stdout", markdown |-> FALSE, n |-> 0]

NextClose ==
    \/ Budget(MaxCloseEvents) /\ onTestRunStart
    \/ Budget(MaxCloseEvents) /\ onTestCaseReady(TestT2)
    \/ Budget(MaxCloseEvents) /\ onTestCaseResult(TestT2, ResultOf("passed", <<>>))
    \/ Budget(MaxCloseEvents)
           /\ onUserConsoleLog([CloseLog EXCEPT !.n = Len(hist) + 1])
    \/ Budget(MaxCloseEvents) /\ onTestRunEnd
    \/ \E j \in 1..Len(runEnds) : RunEndResumes(j)

SpecClose == Init /\ [][NextClose]_vars

\* The console-log events with a task id delivered before the run-ended
\* event of the activation that made the c-th call.
LogsBeforeClose(c) ==
    {e \in 1..(runEnds[hist[EventOfCall(c)].arg].by - 1) :
        hist[e].ev = "log" /\ hist[e].arg.taskId # NoTask}

\* The log of event e was forwarded before the c-th call.
ForwardedBefore(e, c) ==
    \E i \in CallsTo("log") :
        /\ i < c
        /\ calls[i].src.kind = "console"
        /\ calls[i].src.log = hist[e].arg

\* C31: when the run is closed no attributable console log is left
\* unforwarded.  At every finishTestRun call, each console log with a task
\* id that was delivered before the run-ended event has been forwarded, and
\* right after the call the log buffer is empty.
C31_NoLogLeftAtClose ==
    \A c \in CallsTo("finishTestRun") :
        /\ \A e \in LogsBeforeClose(c) : ForwardedBefore(e, c)
        /\ EventOfCall(c) = Len(hist) => DOMAIN bufferedLogs = {}

\* What holds instead: a log has been forwarded by the close when its test
\* was active at the log event or was started between the log and the
\* run-ended event.
C31_ForwardedIfTestStarted ==
    \A c \in CallsTo("finishTestRun") :
        \A e \in LogsBeforeClose(c) :
            (\/ ActiveBefore(hist[e].arg.taskId, e)
             \/ \E s \in CallsTo("startTest") :
                    /\ calls[s].task = hist[e].arg.taskId
                    /\ EventOfCall(s) > e
                    /\ s < c)
                => ForwardedBefore(e, c)

\* A log delivered after the result of its test is still buffered after the
\* run was closed.
C31_LateLogLost ==
    /\ Len(hist) >= 5
    /\ Last(hist).ev = "resume"
    /\ calls[Len(calls)].op = "finishTestRun"
    /\ \E r, e \in 1..Len(hist) :
           /\ hist[r].ev = "result" /\ hist[r].arg.test = "t2"
           /\ r < e
           /\ hist[e].ev = "log"
           /\ MapHas(bufferedLogs, "t2")
           /\ hist[e].arg \in {bufferedLogs["t2"][x] :
                                  x \in 1..Len(bufferedLogs["t2"])}

(***************************************************************************)
(* SpecKeys: tests whose suite paths differ but whose keys in the suites   *)
(* map do not                                                              *)
(***************************************************************************)

\* Events delivered in a behaviour of SpecKeys.
MaxKeyEvents == 5

NextKeys ==
    \/ \E t \in {TestPipe, TestNested, TestCoverageNamed, TestT2} :
           Budget(MaxKeyEvents) /\ onTestCaseReady(t)
    \/ Budget(MaxKeyEvents) /\ onCoverage(CoverageMap(<<FileA>>))
    \/ Budget(MaxKeyEvents) /\ onTestRunEnd
    \/ \E j \in 1..Len(runEnds) : RunEndResumes(j)

SpecKeys == Init /\ [][NextKeys]_vars

\* The suite path of the test the s-th call started; the synthetic coverage
\* test is in the suite Coverage.
PathOfTestStarted(s) ==
    IF calls[s].task = NoTask THEN << <<"Coverage">> >>
    ELSE buildSuitePath(TestById(calls[s].task))

\* The key the suites map holds the suite of the s-th call's test under.
KeyOfTestStarted(s) ==
    IF calls[s].task = NoTask THEN CoverageKey
    ELSE Join(buildSuitePath(TestById(calls[s].task)))

\* C33: distinct suite paths resolve to distinct remote suites.  Two tests
\* (the synthetic coverage test included) whose suite paths differ as
\* sequences of segments are never started in the same remote suite.
C33_DistinctPathsDistinctSuites ==
    \A a, b \in CallsTo("startTest") :
        PathOfTestStarted(a) # PathOfTestStarted(b)
            => calls[a].suite # calls[b].suite

\* What holds instead: tests are started in the same remote suite exactly
\* when the keys of their suites in the map are equal.
C33_SuiteByKey ==
    \A a, b \in CallsTo("startTest") :
        KeyOfTestStarted(a) = KeyOfTestStarted(b)
            <=> calls[a].suite = calls[b].suite

\* The test in describe('x|y') and the test in x below y were started in
\* one remote suite, and the coverage test in the suite of a module.
C33_SuitesShared ==
    /\ \E a, b \in CallsTo("startTest") :
           /\ calls[a].task = "tp" /\ calls[b].task = "tn"
           /\ calls[a].suite = calls[b].suite
    /\ \E a, b \in CallsTo("startTest") :
           /\ calls[a].task = "tc" /\ calls[b].task = NoTask
           /\ calls[a].suite = calls[b].suite

(***************************************************************************)
(* The close of the run, checked under Spec                                *)
(***************************************************************************)

\* C34: each opened remote run is closed at most once.  No two
\* finishTestRun calls carry the identifier of one opened run, and no
\* startSuite, startTest, log or finishTest call for a run is made after the
\* finishTestRun call that closed it.
C34_ClosedAtMostOnce ==
    \A f \in CallsTo("finishTestRun") :
        calls[f].run # NoId =>
            /\ \A g \in CallsTo("finishTestRun") :
                   calls[g].run = calls[f].run => g = f
            /\ \A c \in 1..Len(calls) :
                   (/\ calls[c].op \in {"startSuite", "startTest", "log",
                                        "finishTest"}
                    /\ calls[c].run = calls[f].run)
                       => c < f

\* What holds instead: every run-ended event closes the run at most once,
\* and every finishTestRun call is made by the resumption of one.
C34_OneClosePerRunEnded ==
    /\ \A j \in 1..Len(runEnds) : Cardinality(ClosedBy(j)) <= 1
    /\ \A f \in CallsTo("finishTestRun") :
           \E j \in 1..Len(runEnds) : f \in ClosedBy(j)

\* Two run-ended events closed the one opened run twice.
C34_ClosedTwice ==
    \E f, g \in CallsTo("finishTestRun") :
        /\ f < g
        /\ calls[f].run = calls[g].run
        /\ calls[f].run # NoId
        /\ hist[EventOfCall(f)].arg # hist[EventOfCall(g)].arg

====
